---- MODULE Spec2Model ----
(***************************************************************************)
(* DART Study Monitor backend: the alert rule engine (alertEngine), the    *)
(* derived-metrics aggregation (derivedMetrics) and the in-memory data     *)
(* store (dataLoader), as a state machine.                                 *)
(*                                                                         *)
(* Numbers.  A JavaScript number is modelled as an exact rational          *)
(* <<num, den>> with den >= 0; den = 0 encodes the non-finite values the   *)
(* code can produce by dividing by zero: <<n, 0>> is +Infinity for n > 0,  *)
(* -Infinity for n < 0 and NaN for n = 0.  Comparison by cross             *)
(* multiplication then gives the IEEE outcome for every operand (any       *)
(* comparison with NaN is false).  Record fields of the datasets are       *)
(* integers; a nullable field is <<>> (null) or <<v>>.                     *)
(***************************************************************************)
EXTENDS Integers, Sequences, FiniteSets, TLC

VARIABLES
    THRESHOLDS,       \* dataLoader.ts THRESHOLDS: the threshold configuration
    datasets,         \* dataLoader.ts datasets: studyId -> StudyDataset
    refreshCount,     \* dataLoader.ts refreshCount
    lastRefreshTime,  \* dataLoader.ts lastRefreshTime, in clock ticks
    alertCounter,     \* alertEngine alertCounter
    disk,             \* the study files under DATA_DIR: studyId -> file content
    evalCalls,        \* history: number of evaluateAlerts calls made
    evalResp,         \* history: <<>> or <<r>>, r the last evaluateAlerts call:
                      \*   [studyId, start, alerts, prev], start the counter when
                      \*   it began, prev = <<[start, alerts]>> of the call before
                      \*   it if that was on the same study, else <<>>
    minted,           \* history: every alertId minted so far, in emission order
    aggResp,          \* history: <<>> or <<r>>, r the last compute* call:
                      \*   [fn, studyId, out, counter, prev], counter the alert
                      \*   counter at the call, prev = <<[out, counter]>> of the
                      \*   call before it if that was the same fn on the same study
    riskBadge,        \* <<>> or <<[alerts, badge]>>: the last deriveRiskBadge call
    statResp,         \* <<>> or <<[fn, values, q, out]>>: the arguments for the
                      \*   statistical helpers of derivedMetrics and the last
                      \*   call made with them (fn = "": none yet)
    configResp,       \* history: <<>> or <<r>>, r the last edit of one threshold:
                      \*   [category, name, from, to, changed], changed telling
                      \*   whether evaluateAlerts returns another list (ids aside)
                      \*   for some study of the store after the edit
    httpResp          \* history: <<>> or <<r>>, r the last request served:
                      \*   [request, body, prev], prev = <<body>> of the request
                      \*   before it if that was the same request, else <<>>

vars == <<THRESHOLDS, datasets, refreshCount, lastRefreshTime, alertCounter, disk,
          evalCalls, evalResp, minted, aggResp, riskBadge, statResp, configResp,
          httpResp>>

-----------------------------------------------------------------------------
(* Evaluation helpers.  With binds the value of an expression to a name    *)
(* (a local `const`), so that it is computed once where it is used often.  *)

With(v, F(_)) == CHOOSE r \in {F(x) : x \in {v}} : TRUE

With2(u, v, F(_, _)) == CHOOSE r \in {F(x, y) : x \in {u}, y \in {v}} : TRUE

-----------------------------------------------------------------------------
(* Sequence helpers (Array.prototype.map / filter / flatMap / reduce).     *)

SeqMap(f(_), s) == With(s, LAMBDA x : [i \in 1..Len(x) |-> f(x[i])] \o <<>>)

SeqFilter(s, p(_)) == SelectSeq(s, p)

RECURSIVE SumFrom(_, _)
SumFrom(x, i) == IF i > Len(x) THEN 0 ELSE x[i] + SumFrom(x, i + 1)

\* values.reduce((a, b) => a + b, 0)
SeqSum(s) == With(s, LAMBDA x : SumFrom(x, 1))

RECURSIVE FlattenFrom(_, _)
FlattenFrom(x, i) == IF i > Len(x) THEN <<>> ELSE x[i] \o FlattenFrom(x, i + 1)

Flatten(ss) == With(ss, LAMBDA x : FlattenFrom(x, 1))

FlatMap(f(_), s) == Flatten(SeqMap(f, s))

SeqSome(s, p(_)) == With(s, LAMBDA x : \E i \in 1..Len(x) : p(x[i]))

\* x ?? d
Coalesce(x, d) == IF x = <<>> THEN d ELSE x[1]

-----------------------------------------------------------------------------
(* Rational arithmetic standing for JavaScript number arithmetic.          *)

R(n) == <<n, 1>>

Abs(n) == IF n < 0 THEN -n ELSE n

RECURSIVE GCD(_, _)
GCD(a, b) == IF b = 0 THEN a ELSE With(a % b, LAMBDA m : GCD(b, m))

\* the fraction n/d in lowest terms with d >= 0 (one value, one representation)
Lowest(n, d) ==
    With(GCD(Abs(n), Abs(d)),
         LAMBDA g : IF g = 0 THEN <<0, 0>>
                    ELSE IF d < 0 THEN <<(-n) \div g, (-d) \div g>>
                    ELSE <<n \div g, d \div g>>)

RNorm(n, d) == With2(n, d, Lowest)

RatAdd(a, b) == With2(a, b, LAMBDA x, y : RNorm(x[1] * y[2] + y[1] * x[2], x[2] * y[2]))
RatSub(a, b) == With2(a, b, LAMBDA x, y : RNorm(x[1] * y[2] - y[1] * x[2], x[2] * y[2]))
RatMul(a, b) == With2(a, b, LAMBDA x, y : RNorm(x[1] * y[1], x[2] * y[2]))
RatDiv(a, b) == With2(a, b, LAMBDA x, y : RNorm(x[1] * y[2], x[2] * y[1]))
RatNeg(a)    == With(a, LAMBDA x : <<-x[1], x[2]>>)

RatLT(a, b) == With2(a, b, LAMBDA x, y : x[1] * y[2] < y[1] * x[2])
RatGT(a, b) == With2(a, b, LAMBDA x, y : x[1] * y[2] > y[1] * x[2])
RatGE(a, b) ==
    With2(a, b, LAMBDA x, y : x[1] * y[2] >= y[1] * x[2] /\ x # <<0, 0>> /\ y # <<0, 0>>)
IsFinite(a) == a[2] > 0

\* the decimal string of a finite number rounded to `digits` places, ties away
\* from zero, kept as the scaled integer; the name of a non-finite one
Fixed(a, digits) ==
    IF ~IsFinite(a)
    THEN [text |-> IF a[1] > 0 THEN "Infinity" ELSE IF a[1] < 0 THEN "-Infinity" ELSE "NaN",
          scaled |-> 0, digits |-> digits]
    ELSE LET f == IF digits = 0 THEN 1 ELSE 10
             m == (2 * Abs(a[1]) * f + a[2]) \div (2 * a[2])
         IN [text |-> "number",
             scaled |-> IF a[1] < 0 THEN -m ELSE m,
             digits |-> digits]

\* Number.prototype.toFixed(digits)
ToFixed(a, digits) == With(a, LAMBDA x : Fixed(x, digits))

RECURSIVE MinFrom(_, _)
MinFrom(x, i) ==
    IF i > Len(x) THEN <<1, 0>>
    ELSE With(MinFrom(x, i + 1), LAMBDA rest : IF RatLT(R(x[i]), rest) THEN R(x[i]) ELSE rest)

\* Math.min(...values); Infinity for no arguments
MathMin(values) == With(values, LAMBDA x : MinFrom(x, 1))

-----------------------------------------------------------------------------
(* alertEngine: id minting and mean.                                       *)

RECURSIVE Digits(_)
\* String(n): the decimal digits of n >= 0, most significant first
Digits(n) ==
    With(n, LAMBDA x : IF x < 10 THEN <<x>> ELSE Append(Digits(x \div 10), x % 10))

RECURSIVE PadStart(_, _, _)
\* String.prototype.padStart(width, fill)
PadStart(s, width, fill) ==
    With(s, LAMBDA x : IF Len(x) >= width THEN x ELSE PadStart(<<fill>> \o x, width, fill))

\* `ALT-${String(n).padStart(4, '0')}`
FormatAlertId(n) == [prefix |-> "ALT-", digits |-> PadStart(Digits(n), 4, 0)]

RECURSIVE ParseDigits(_)
\* the number a digit string denotes
ParseDigits(ds) ==
    With(ds, LAMBDA x : IF x = <<>> THEN 0
                        ELSE 10 * ParseDigits(SubSeq(x, 1, Len(x) - 1)) + x[Len(x)])

\* the numeric part of an alertId
AlertNumber(id) == ParseDigits(id.digits)

\* variant: the counter is read before it is incremented (alertCounter++)
alertIdPostIncrement(st) == FormatAlertId(st.counter)

\* alertId(): pre-increment of the module-level counter, then format.
\* st is the memory the engine writes: [alerts, counter].
alertId(st) == FormatAlertId(st.counter + 1)

\* variant: the message is prefixed with the running alert number
PushAlertNumbered(st, dataset, group, category, severity, message, endpoint) ==
    With(st, LAMBDA s :
        [alerts  |-> Append(s.alerts,
                            [alertId  |-> FormatAlertId(s.counter + 1),
                             studyId  |-> dataset.study.studyId,
                             groupId  |-> group.groupId,
                             category |-> category,
                             severity |-> severity,
                             message  |-> [number |-> s.counter + 1, text |-> message],
                             endpoint |-> endpoint]),
         counter |-> s.counter + 1])

\* alerts.push({alertId: alertId(), studyId: ..., groupId: ..., ...})
PushAlert(st, dataset, group, category, severity, message, endpoint) ==
    With(st, LAMBDA s :
        [alerts  |-> Append(s.alerts,
                            [alertId  |-> alertId(s),
                             studyId  |-> dataset.study.studyId,
                             groupId  |-> group.groupId,
                             category |-> category,
                             severity |-> severity,
                             message  |-> message,
                             endpoint |-> endpoint]),
         counter |-> s.counter + 1])

\* message template with its interpolated number and group name
Msg(template, value, group) == [template |-> template, value |-> value, group |-> group.name]

\* mean(values): 0 for an empty array
mean(values) ==
    With(values, LAMBDA x : IF Len(x) = 0 THEN R(0) ELSE RNorm(SeqSum(x), Len(x)))

-----------------------------------------------------------------------------
(* alertEngine: the rule checks.  Each takes the engine memory st =        *)
(* [alerts, counter] and returns it after the check ran.                   *)

Pct(t)      == ToFixed(t, 0)

\* `${x}`: String(x); the decimal digits for an integer, else kept as the fraction
NumberToString(a) ==
    With(a, LAMBDA x : IF IsFinite(x) /\ x[1] % x[2] = 0 THEN ToFixed(x, 0)
                       ELSE [text |-> "fraction", scaled |-> x[1], digits |-> x[2]])
Half(t)     == RatMul(t, <<1, 2>>)
Double(t)   == RatMul(t, R(2))
OneAndHalf(t) == RatMul(t, <<3, 2>>)

\* ((a - b) / b) * 100
PercentChange(a, b) == With(b, LAMBDA y : RatMul(RatDiv(RatSub(a, y), y), R(100)))

\* ((b - a) / b) * 100
PercentDecrease(a, b) == With(b, LAMBDA y : RatMul(RatDiv(RatSub(y, a), y), R(100)))

\* Math.min(...animal.bodyWeights.map(bw => bw.changeFromBaseline))
worstChange(animal) == MathMin(SeqMap(LAMBDA bw : bw.changeFromBaseline, animal.bodyWeights))

RECURSIVE IndividualLossFrom(_, _, _, _, _)
IndividualLossFrom(st, dataset, group, animals, i) ==
    IF i > Len(animals) THEN st
    ELSE IF RatLT(worstChange(animals[i]), RatNeg(THRESHOLDS.maternal.bodyWeightLossPercent))
         THEN PushAlert(st, dataset, group, "maternal", "red",
                        Msg("Maternal body weight loss >%s% in ",
                            NumberToString(THRESHOLDS.maternal.bodyWeightLossPercent), group),
                        "maternal")
         ELSE IndividualLossFrom(st, dataset, group, animals, i + 1)

RECURSIVE IndividualLossFromNoBreak(_, _, _, _, _)
IndividualLossFromNoBreak(st, dataset, group, animals, i) ==
    IF i > Len(animals) THEN st
    ELSE With(IF RatLT(worstChange(animals[i]),
                       RatNeg(THRESHOLDS.maternal.bodyWeightLossPercent))
              THEN PushAlert(st, dataset, group, "maternal", "red",
                             Msg("Maternal body weight loss >%s% in ",
                                 NumberToString(THRESHOLDS.maternal.bodyWeightLossPercent),
                                 group),
                             "maternal")
              ELSE st,
              LAMBDA st1 : IndividualLossFromNoBreak(st1, dataset, group, animals, i + 1))

\* variant: the loop without its `break`
IndividualLossLoopNoBreak(st, dataset, group, animals) ==
    IndividualLossFromNoBreak(st, dataset, group, animals, 1)

\* for (const animal of groupAnimals) { if (worstChange < -T) { push; break } }
IndividualLossLoop(st, dataset, group, animals) ==
    IndividualLossFrom(st, dataset, group, animals, 1)

\* a.bodyWeights[i]?.weight kept by .filter(Boolean)
FirstWeights(groupAnimals) ==
    SeqMap(LAMBDA a : a.bodyWeights[1].weight,
           SeqFilter(groupAnimals,
                     LAMBDA a : Len(a.bodyWeights) > 0 /\ a.bodyWeights[1].weight # 0))

LastWeights(groupAnimals) ==
    SeqMap(LAMBDA a : a.bodyWeights[Len(a.bodyWeights)].weight,
           SeqFilter(groupAnimals,
                     LAMBDA a : Len(a.bodyWeights) > 0
                                /\ a.bodyWeights[Len(a.bodyWeights)].weight # 0))

\* variant: the red test is `pctChange <= -threshold`
GroupMeanLossInclusive(st, dataset, group, groupAnimals) ==
    With2(FirstWeights(groupAnimals), LastWeights(groupAnimals),
          LAMBDA baselineWeights, lastWeights :
        IF Len(baselineWeights) > 0 /\ Len(lastWeights) > 0
        THEN With2(PercentChange(mean(lastWeights), mean(baselineWeights)),
                   THRESHOLDS.maternal.bodyWeightLossPercent,
                   LAMBDA pctChange, T :
                 IF RatLT(pctChange, RatNeg(Half(T)))
                 THEN PushAlert(st, dataset, group, "maternal",
                                IF RatGE(RatNeg(T), pctChange) THEN "red" ELSE "yellow",
                                Msg("Mean maternal body weight change %s% in ",
                                    ToFixed(pctChange, 1), group),
                                "maternal")
                 ELSE st)
        ELSE st)

\* Group-level: mean weight loss
GroupMeanLoss(st, dataset, group, groupAnimals) ==
    With2(FirstWeights(groupAnimals), LastWeights(groupAnimals),
          LAMBDA baselineWeights, lastWeights :
        IF Len(baselineWeights) > 0 /\ Len(lastWeights) > 0
        THEN With2(PercentChange(mean(lastWeights), mean(baselineWeights)),
                   THRESHOLDS.maternal.bodyWeightLossPercent,
                   LAMBDA pctChange, T :
                 IF RatLT(pctChange, RatNeg(Half(T)))
                 THEN PushAlert(st, dataset, group, "maternal",
                                IF RatLT(pctChange, RatNeg(T)) THEN "red" ELSE "yellow",
                                Msg("Mean maternal body weight change %s% in ",
                                    ToFixed(pctChange, 1), group),
                                "maternal")
                 ELSE st)
        ELSE st)

checkMaternalBodyWeight(st, dataset, group, groupAnimals) ==
    GroupMeanLoss(IndividualLossLoop(st, dataset, group, groupAnimals),
                  dataset, group, groupAnimals)

\* animals.flatMap(a => a.foodConsumption.map(fc => fc.consumption))
AllConsumption(animals) ==
    FlatMap(LAMBDA a : SeqMap(LAMBDA fc : fc.consumption, a.foodConsumption), animals)

\* the yellow test of the food-consumption rule, on its own
FoodYellow(st, dataset, group, pctDecrease) ==
    IF RatGT(pctDecrease, Half(THRESHOLDS.maternal.foodConsumptionDecreasePercent))
    THEN PushAlert(st, dataset, group, "maternal", "yellow",
                   Msg("Food consumption decreased %s% vs control in ", Pct(pctDecrease), group),
                   "maternal")
    ELSE st

\* the red test of the food-consumption rule, on its own
FoodRed(st, dataset, group, pctDecrease) ==
    IF RatGT(pctDecrease, THRESHOLDS.maternal.foodConsumptionDecreasePercent)
    THEN PushAlert(st, dataset, group, "maternal", "red",
                   Msg("Food consumption decreased %s% vs control in ", Pct(pctDecrease), group),
                   "maternal")
    ELSE st

\* variant: `if` where the rule has `else if`, so both tests run
checkMaternalFoodConsumptionNoElse(st, dataset, group, groupAnimals, controlAnimals) ==
    With2(AllConsumption(groupAnimals), AllConsumption(controlAnimals),
          LAMBDA groupFC, controlFC :
        IF Len(groupFC) > 0 /\ Len(controlFC) > 0
        THEN With(PercentDecrease(mean(groupFC), mean(controlFC)), LAMBDA pctDecrease :
                 FoodYellow(FoodRed(st, dataset, group, pctDecrease),
                            dataset, group, pctDecrease))
        ELSE st)

checkMaternalFoodConsumption(st, dataset, group, groupAnimals, controlAnimals) ==
    With2(AllConsumption(groupAnimals), AllConsumption(controlAnimals),
          LAMBDA groupFC, controlFC :
        IF Len(groupFC) > 0 /\ Len(controlFC) > 0
        THEN With2(PercentDecrease(mean(groupFC), mean(controlFC)),
                   THRESHOLDS.maternal.foodConsumptionDecreasePercent,
                   LAMBDA pctDecrease, T :
                 IF RatGT(pctDecrease, T)
                 THEN PushAlert(st, dataset, group, "maternal", "red",
                                Msg("Food consumption decreased %s% vs control in ",
                                    Pct(pctDecrease), group),
                                "maternal")
                 ELSE IF RatGT(pctDecrease, Half(T))
                 THEN PushAlert(st, dataset, group, "maternal", "yellow",
                                Msg("Food consumption decreased %s% vs control in ",
                                    Pct(pctDecrease), group),
                                "maternal")
                 ELSE st)
        ELSE st)

\* groupAnimals.filter(a => a.maternalDeathFlag).length
DeathCount(groupAnimals) == Len(SeqFilter(groupAnimals, LAMBDA a : a.maternalDeathFlag))

checkMaternalDeaths(st, dataset, group, groupAnimals) ==
    With(DeathCount(groupAnimals), LAMBDA deaths :
        IF RatGE(R(deaths), THRESHOLDS.maternal.deathCount)
        THEN PushAlert(st, dataset, group, "maternal",
                       IF deaths >= 2 THEN "red" ELSE "yellow",
                       Msg("%s maternal death(s) in ", NumberToString(R(deaths)), group),
                       "maternal")
        ELSE st)

\* groupAnimals.filter(a => a.clinicalObservations.length > 0).length
WithSigns(groupAnimals) ==
    Len(SeqFilter(groupAnimals, LAMBDA a : Len(a.clinicalObservations) > 0))

\* variant: a group without animals counts as wholly affected
checkMaternalClinicalSignsEmptyAsAll(st, dataset, group, groupAnimals) ==
    With(IF Len(groupAnimals) = 0 THEN R(100)
         ELSE RatMul(RatDiv(R(WithSigns(groupAnimals)), R(Len(groupAnimals))), R(100)),
         LAMBDA pct :
        IF RatGT(pct, THRESHOLDS.maternal.clinicalSignIncidencePercent)
        THEN PushAlert(st, dataset, group, "maternal",
                       IF RatGT(pct, R(50)) THEN "red" ELSE "yellow",
                       Msg("%s% dams with clinical signs in ", Pct(pct), group),
                       "maternal")
        ELSE st)

checkMaternalClinicalSigns(st, dataset, group, groupAnimals) ==
    With(RatMul(RatDiv(R(WithSigns(groupAnimals)), R(Len(groupAnimals))), R(100)), LAMBDA pct :
        IF RatGT(pct, THRESHOLDS.maternal.clinicalSignIncidencePercent)
        THEN PushAlert(st, dataset, group, "maternal",
                       IF RatGT(pct, R(50)) THEN "red" ELSE "yellow",
                       Msg("%s% dams with clinical signs in ", Pct(pct), group),
                       "maternal")
        ELSE st)

\* the early-resorption half of checkResorptions
EarlyResorptions(st, dataset, group, groupLitters) ==
    With2(mean(SeqMap(LAMBDA l : l.resorptionsEarly, groupLitters)),
          THRESHOLDS.developmental.earlyResorptionThreshold,
          LAMBDA meanEarly, TE :
        IF RatGT(meanEarly, TE)
        THEN PushAlert(st, dataset, group, "developmental",
                       IF RatGT(meanEarly, OneAndHalf(TE)) THEN "red" ELSE "yellow",
                       Msg("Mean early resorptions %s/litter in ", ToFixed(meanEarly, 1), group),
                       "litter")
        ELSE st)

\* variant: the late check escalates to red like the early one
LateResorptionsEscalating(st, dataset, group, groupLitters) ==
    With2(mean(SeqMap(LAMBDA l : l.resorptionsLate, groupLitters)),
          THRESHOLDS.developmental.lateResorptionThreshold,
          LAMBDA meanLate, TL :
        IF RatGT(meanLate, TL)
        THEN PushAlert(st, dataset, group, "developmental",
                       IF RatGT(meanLate, OneAndHalf(TL)) THEN "red" ELSE "yellow",
                       Msg("Mean late resorptions %s/litter in ", ToFixed(meanLate, 1), group),
                       "litter")
        ELSE st)

\* the late-resorption half of checkResorptions
LateResorptions(st, dataset, group, groupLitters) ==
    With(mean(SeqMap(LAMBDA l : l.resorptionsLate, groupLitters)), LAMBDA meanLate :
        IF RatGT(meanLate, THRESHOLDS.developmental.lateResorptionThreshold)
        THEN PushAlert(st, dataset, group, "developmental", "yellow",
                       Msg("Mean late resorptions %s/litter in ", ToFixed(meanLate, 1), group),
                       "litter")
        ELSE st)

checkResorptions(st, dataset, group, groupLitters, controlLitters) ==
    LateResorptions(EarlyResorptions(st, dataset, group, groupLitters),
                    dataset, group, groupLitters)

\* variant: a control mean of 0 is reported as a yellow alert of its own
checkFetalWeightFlagsMissingControl(st, dataset, group, groupLitters, controlLitters) ==
    With2(mean(SeqMap(LAMBDA l : l.meanFetalWeight, groupLitters)),
          mean(SeqMap(LAMBDA l : l.meanFetalWeight, controlLitters)),
          LAMBDA groupMean, controlMean :
        IF RatGT(controlMean, R(0))
        THEN With2(PercentDecrease(groupMean, controlMean),
                   THRESHOLDS.developmental.fetalWeightDecreasePercent,
                   LAMBDA pctDecrease, T :
                 IF RatGT(pctDecrease, T)
                 THEN PushAlert(st, dataset, group, "developmental", "red",
                                Msg("Mean fetal weight decreased %s% vs control in ",
                                    Pct(pctDecrease), group),
                                "fetal")
                 ELSE IF RatGT(pctDecrease, Half(T))
                 THEN PushAlert(st, dataset, group, "developmental", "yellow",
                                Msg("Mean fetal weight decreased %s% vs control in ",
                                    Pct(pctDecrease), group),
                                "fetal")
                 ELSE st)
        ELSE PushAlert(st, dataset, group, "developmental", "yellow",
                       Msg("Mean fetal weight decreased %s% vs control in ",
                           Pct(PercentDecrease(groupMean, controlMean)), group),
                       "fetal"))

\* variant: the rule is skipped for a group without litters as well
checkFetalWeightGuardsBoth(st, dataset, group, groupLitters, controlLitters) ==
    With2(mean(SeqMap(LAMBDA l : l.meanFetalWeight, groupLitters)),
          mean(SeqMap(LAMBDA l : l.meanFetalWeight, controlLitters)),
          LAMBDA groupMean, controlMean :
        IF RatGT(controlMean, R(0)) /\ Len(groupLitters) > 0
        THEN With2(PercentDecrease(groupMean, controlMean),
                   THRESHOLDS.developmental.fetalWeightDecreasePercent,
                   LAMBDA pctDecrease, T :
                 IF RatGT(pctDecrease, T)
                 THEN PushAlert(st, dataset, group, "developmental", "red",
                                Msg("Mean fetal weight decreased %s% vs control in ",
                                    Pct(pctDecrease), group),
                                "fetal")
                 ELSE IF RatGT(pctDecrease, Half(T))
                 THEN PushAlert(st, dataset, group, "developmental", "yellow",
                                Msg("Mean fetal weight decreased %s% vs control in ",
                                    Pct(pctDecrease), group),
                                "fetal")
                 ELSE st)
        ELSE st)

checkFetalWeight(st, dataset, group, groupLitters, controlLitters) ==
    With2(mean(SeqMap(LAMBDA l : l.meanFetalWeight, groupLitters)),
          mean(SeqMap(LAMBDA l : l.meanFetalWeight, controlLitters)),
          LAMBDA groupMean, controlMean :
        IF RatGT(controlMean, R(0))
        THEN With2(PercentDecrease(groupMean, controlMean),
                   THRESHOLDS.developmental.fetalWeightDecreasePercent,
                   LAMBDA pctDecrease, T :
                 IF RatGT(pctDecrease, T)
                 THEN PushAlert(st, dataset, group, "developmental", "red",
                                Msg("Mean fetal weight decreased %s% vs control in ",
                                    Pct(pctDecrease), group),
                                "fetal")
                 ELSE IF RatGT(pctDecrease, Half(T))
                 THEN PushAlert(st, dataset, group, "developmental", "yellow",
                                Msg("Mean fetal weight decreased %s% vs control in ",
                                    Pct(pctDecrease), group),
                                "fetal")
                 ELSE st)
        ELSE st)

\* litterFetuses.some(f => f.findings.some(ff => ff.classification === 'malformation'))
HasMalformation(dataset, litter) ==
    SeqSome(SeqFilter(dataset.fetuses, LAMBDA f : f.litterId = litter.litterId),
            LAMBDA f : SeqSome(f.findings, LAMBDA ff : ff.classification = "malformation"))

\* the number of group litters with at least one malformed fetus
LittersWithMalf(dataset, groupLitters) ==
    Len(SeqFilter(groupLitters, LAMBDA l : HasMalformation(dataset, l)))

checkMalformations(st, dataset, group, groupLitters) ==
    With2(IF Len(groupLitters) > 0
          THEN RatMul(RatDiv(R(LittersWithMalf(dataset, groupLitters)), R(Len(groupLitters))),
                      R(100))
          ELSE R(0),
          THRESHOLDS.developmental.malformationIncidencePercent,
          LAMBDA pct, T :
        IF RatGT(pct, T)
        THEN PushAlert(st, dataset, group, "developmental",
                       IF RatGT(pct, Double(T)) THEN "red" ELSE "yellow",
                       Msg("%s% litters with malformations in ", Pct(pct), group),
                       "fetal")
        ELSE st)

\* sum + (l.<field> ?? 0) over the group's litters
SumOf(field, groupLitters) ==
    SeqSum(SeqMap(LAMBDA l : Coalesce(l[field], 0), groupLitters))

\* totalBorn > 0 ? ((totalBorn - survivingPND4) / totalBorn) * 100 : 0
Mortality(totalBorn, survivingPND4) ==
    With(totalBorn, LAMBDA born :
        IF born > 0 THEN RatMul(RatDiv(R(born - survivingPND4), R(born)), R(100)) ELSE R(0))

checkPupMortality(st, dataset, group) ==
    With2(With(SeqFilter(dataset.litters, LAMBDA l : l.groupId = group.groupId),
               LAMBDA groupLitters : Mortality(SumOf("postnatalPups", groupLitters),
                                               SumOf("pupsSurvivingPND4", groupLitters))),
          THRESHOLDS.postnatal.perinatalMortalityPercent,
          LAMBDA mortality, T :
        IF RatGT(mortality, T)
        THEN PushAlert(st, dataset, group, "postnatal",
                       IF RatGT(mortality, Double(T)) THEN "red" ELSE "yellow",
                       Msg("Perinatal pup mortality %s% in ", Pct(mortality), group),
                       "postnatal")
        ELSE st)

\* dataset.pups.filter(p => p.groupId === g.groupId && p.viabilityStatus === 'live')
LivePups(dataset, g) ==
    SeqFilter(dataset.pups, LAMBDA p : p.groupId = g.groupId /\ p.viabilityStatus = "live")

getLastWeight(pup) ==
    With(pup.bodyWeights, LAMBDA ws : IF Len(ws) > 0 THEN ws[Len(ws)].weight ELSE 0)

checkPupWeightGain(st, dataset, group, controlGroup) ==
    With2(mean(SeqMap(getLastWeight, LivePups(dataset, group))),
          mean(SeqMap(getLastWeight, LivePups(dataset, controlGroup))),
          LAMBDA groupMean, controlMean :
        IF RatGT(controlMean, R(0))
        THEN With(PercentDecrease(groupMean, controlMean), LAMBDA pctDecrease :
                 IF RatGT(pctDecrease, THRESHOLDS.postnatal.pupWeightGainDecreasePercent)
                 THEN PushAlert(st, dataset, group, "postnatal", "red",
                                Msg("Pup weight gain decreased %s% vs control in ",
                                    Pct(pctDecrease), group),
                                "postnatal")
                 ELSE st)
        ELSE st)

RECURSIVE NamesFrom(_, _, _)
NamesFrom(x, i, seen) ==
    IF i > Len(x) THEN <<>>
    ELSE IF x[i] \in seen THEN NamesFrom(x, i + 1, seen)
         ELSE <<x[i]>> \o With(seen \cup {x[i]}, LAMBDA seen1 : NamesFrom(x, i + 1, seen1))

\* the insertion order of a Set filled by scanning `names`
NamesInOrder(names, seen) == With(names, LAMBDA x : NamesFrom(x, 1, seen))

\* dataset.pups.forEach(p => p.milestones.forEach(m => milestones.add(m.milestone)))
MilestoneNames(dataset) ==
    NamesInOrder(FlatMap(LAMBDA p : SeqMap(LAMBDA m : m.milestone, p.milestones),
                         dataset.pups), {})

\* p.milestones.find(m => m.milestone === milestone)
Found(p, milestone) == SeqFilter(p.milestones, LAMBDA m : m.milestone = milestone)

\* p.milestones.find(m => m.milestone === milestone)?.dayAchieved, nulls dropped
AchievedDays(pups, milestone) ==
    FlatMap(LAMBDA p : With(Found(p, milestone),
                            LAMBDA found : IF Len(found) > 0 /\ found[1].dayAchieved # <<>>
                                           THEN <<found[1].dayAchieved[1]>> ELSE <<>>),
            pups)

\* variant: only the group's side is required to have an achievement day
MilestoneCheckOneSided(st, dataset, group, controlGroup, milestone) ==
    With2(AchievedDays(LivePups(dataset, group), milestone),
          AchievedDays(LivePups(dataset, controlGroup), milestone),
          LAMBDA groupDays, controlDays :
        IF Len(groupDays) > 0
        THEN With2(RatSub(mean(groupDays), mean(controlDays)),
                   THRESHOLDS.postnatal.milestoneDelayDays,
                   LAMBDA delay, T :
                 IF RatGT(delay, T)
                 THEN PushAlert(st, dataset, group, "postnatal",
                                IF RatGT(delay, Double(T)) THEN "red" ELSE "yellow",
                                Msg(milestone, ToFixed(delay, 1), group),
                                "postnatal")
                 ELSE st)
        ELSE st)

\* the body of `for (const milestone of milestones)`
MilestoneCheck(st, dataset, group, controlGroup, milestone) ==
    With2(AchievedDays(LivePups(dataset, group), milestone),
          AchievedDays(LivePups(dataset, controlGroup), milestone),
          LAMBDA groupDays, controlDays :
        IF Len(groupDays) > 0 /\ Len(controlDays) > 0
        THEN With2(RatSub(mean(groupDays), mean(controlDays)),
                   THRESHOLDS.postnatal.milestoneDelayDays,
                   LAMBDA delay, T :
                 IF RatGT(delay, T)
                 THEN PushAlert(st, dataset, group, "postnatal",
                                IF RatGT(delay, Double(T)) THEN "red" ELSE "yellow",
                                Msg(milestone, ToFixed(delay, 1), group),
                                "postnatal")
                 ELSE st)
        ELSE st)

RECURSIVE MilestoneLoop(_, _, _, _, _, _)
MilestoneLoop(st, dataset, group, controlGroup, milestones, i) ==
    IF i > Len(milestones) THEN st
    ELSE With(MilestoneCheck(st, dataset, group, controlGroup, milestones[i]),
              LAMBDA st1 : MilestoneLoop(st1, dataset, group, controlGroup, milestones, i + 1))

checkMilestoneDelay(st, dataset, group, controlGroup) ==
    With(MilestoneNames(dataset),
         LAMBDA milestones : MilestoneLoop(st, dataset, group, controlGroup, milestones, 1))

-----------------------------------------------------------------------------
(* alertEngine: evaluateAlerts.                                            *)

GroupAnimals(dataset, g) == SeqFilter(dataset.animals, LAMBDA a : a.groupId = g.groupId)
GroupLitters(dataset, g) == SeqFilter(dataset.litters, LAMBDA l : l.groupId = g.groupId)

\* variant: the death check runs before the food-consumption check
MaternalChecksDeathsFirst(st, dataset, group, groupAnimals, controlAnimals) ==
    checkMaternalClinicalSigns(
        checkMaternalFoodConsumption(
            checkMaternalDeaths(
                checkMaternalBodyWeight(st, dataset, group, groupAnimals),
                dataset, group, groupAnimals),
            dataset, group, groupAnimals, controlAnimals),
        dataset, group, groupAnimals)

\* the four maternal checks of the loop body, in call order
MaternalChecks(st, dataset, group, groupAnimals, controlAnimals) ==
    checkMaternalClinicalSigns(
        checkMaternalDeaths(
            checkMaternalFoodConsumption(
                checkMaternalBodyWeight(st, dataset, group, groupAnimals),
                dataset, group, groupAnimals, controlAnimals),
            dataset, group, groupAnimals),
        dataset, group, groupAnimals)

\* the three developmental checks of the loop body, in call order
DevelopmentalChecks(st, dataset, group, groupLitters, controlLitters) ==
    checkMalformations(
        checkFetalWeight(
            checkResorptions(st, dataset, group, groupLitters, controlLitters),
            dataset, group, groupLitters, controlLitters),
        dataset, group, groupLitters)

\* variant: the postnatal checks run whether or not the dataset has pups
PostnatalChecksUnguarded(st, dataset, group, controlGroup) ==
    checkMilestoneDelay(
        checkPupWeightGain(
            checkPupMortality(st, dataset, group),
            dataset, group, controlGroup),
        dataset, group, controlGroup)

\* if (dataset.pups.length > 0) { the three postnatal checks }
PostnatalChecks(st, dataset, group, controlGroup) ==
    IF Len(dataset.pups) > 0
    THEN checkMilestoneDelay(
             checkPupWeightGain(
                 checkPupMortality(st, dataset, group),
                 dataset, group, controlGroup),
             dataset, group, controlGroup)
    ELSE st

\* the body of `for (const group of dataset.groups)` for one non-control group
EvaluateGroup(st, dataset, group, controlGroup) ==
    PostnatalChecks(
        With2(GroupLitters(dataset, group), GroupLitters(dataset, controlGroup),
              LAMBDA groupLitters, controlLitters :
            DevelopmentalChecks(
                With2(GroupAnimals(dataset, group), GroupAnimals(dataset, controlGroup),
                      LAMBDA groupAnimals, controlAnimals :
                    MaternalChecks(st, dataset, group, groupAnimals, controlAnimals)),
                dataset, group, groupLitters, controlLitters)),
        dataset, group, controlGroup)

RECURSIVE GroupLoopWithControl(_, _, _)
\* variant: the loop without `if (group.groupId === controlGroup.groupId) continue`
GroupLoopWithControl(st, dataset, i) ==
    IF i > Len(dataset.groups) THEN st
    ELSE With(EvaluateGroup(st, dataset, dataset.groups[i], dataset.groups[1]),
              LAMBDA st1 : GroupLoopWithControl(st1, dataset, i + 1))

RECURSIVE GroupLoop(_, _, _)
GroupLoop(st, dataset, i) ==
    IF i > Len(dataset.groups) THEN st
    ELSE With(IF dataset.groups[i].groupId = dataset.groups[1].groupId
              THEN st                                   \* skip control vs itself
              ELSE EvaluateGroup(st, dataset, dataset.groups[i], dataset.groups[1]),
              LAMBDA st1 : GroupLoop(st1, dataset, i + 1))

\* the list, the counter and the dataset object as a finished run leaves them
Evaluated(st, dataset) == [alerts |-> st.alerts, counter |-> st.counter, dataset |-> dataset]

\* variant: the counter is local to the call (`let alertCounter = 0` inside)
evaluateAlertsOwnCounter(dataset, counter) ==
    With(GroupLoop([alerts |-> <<>>, counter |-> 0], dataset, 1),
         LAMBDA st : Evaluated(st, dataset))

\* evaluateAlerts(dataset) started with the counter at `counter`
evaluateAlerts(dataset, counter) ==
    With(GroupLoop([alerts |-> <<>>, counter |-> counter], dataset, 1),
         LAMBDA st : Evaluated(st, dataset))

\* variant: the yellow test comes first
deriveRiskBadgeYellowFirst(as) ==
    IF SeqSome(as, LAMBDA a : a.severity = "yellow") THEN "yellow"
    ELSE IF SeqSome(as, LAMBDA a : a.severity = "red") THEN "red"
    ELSE "green"

\* variant: only a red alert lifts the badge from green
deriveRiskBadgeRedOrGreen(as) ==
    IF SeqSome(as, LAMBDA a : a.severity = "red") THEN "red" ELSE "green"

deriveRiskBadge(as) ==
    IF SeqSome(as, LAMBDA a : a.severity = "red") THEN "red"
    ELSE IF SeqSome(as, LAMBDA a : a.severity = "yellow") THEN "yellow"
    ELSE "green"

-----------------------------------------------------------------------------
(* derivedMetrics: statistical helpers.  Values are rationals; a rounded   *)
(* result is the integer number of hundredths.                             *)

RECURSIVE RatSumFrom(_, _)
RatSumFrom(x, i) == IF i > Len(x) THEN R(0) ELSE RatAdd(x[i], RatSumFrom(x, i + 1))

\* values.reduce((a, b) => a + b, 0)
RatSum(values) == With(values, LAMBDA x : RatSumFrom(x, 1))

Rs(ints) == SeqMap(R, ints)

\* variant: the copy is left in the order given
UnsortedCopy(values) == values

\* [...values].sort((a, b) => a - b): a sorted copy
SortedCopy(values) == SortSeq(values, LAMBDA a, b : a[1] * b[2] < b[1] * a[2])

\* Math.floor of a finite rational
Floor(a) == With(a, LAMBDA x : x[1] \div x[2])

RECURSIVE ISqrtSearch(_, _, _)
ISqrtSearch(n, lo, hi) ==
    IF lo >= hi THEN lo
    ELSE With((lo + hi + 1) \div 2,
              LAMBDA mid : IF mid * mid <= n THEN ISqrtSearch(n, mid, hi)
                           ELSE ISqrtSearch(n, lo, mid - 1))

\* floor(sqrt(n)) for 0 <= n
ISqrt(n) == With(n, LAMBDA x : ISqrtSearch(x, 0, IF x < 46340 THEN x ELSE 46340))

\* round(v, 2): Math.round(v * 100) / 100, as hundredths
round(v) == With(v, LAMBDA x : (2 * x[1] * 100 + x[2]) \div (2 * x[2]))

\* round(Math.sqrt(x), 2) for a rational x >= 0, as hundredths
roundSqrt(v) == With(v, LAMBDA x : (ISqrt((40000 * x[1]) \div x[2]) + 1) \div 2)

meanDM(values) ==
    With(values, LAMBDA x : IF Len(x) = 0 THEN R(0) ELSE RatDiv(RatSum(x), R(Len(x))))

\* sum of (v - m)^2
SquaredDeviations(values, m) ==
    With(m, LAMBDA mu :
        RatSum(SeqMap(LAMBDA v : With(RatSub(v, mu), LAMBDA d : RatMul(d, d)), values)))

\* variant: only the empty list is guarded
semSquaredOfOne(values) ==
    With(values, LAMBDA x :
        IF Len(x) = 0 THEN R(0)
        ELSE RatDiv(RatDiv(SquaredDeviations(x, meanDM(x)), R(Len(x) - 1)), R(Len(x))))

\* sem(values) squared: variance / n with the n-1 variance, 0 for n <= 1
semSquared(values) ==
    With(values, LAMBDA x :
        IF Len(x) <= 1 THEN R(0)
        ELSE RatDiv(RatDiv(SquaredDeviations(x, meanDM(x)), R(Len(x) - 1)), R(Len(x))))

\* round(sem(values)): sem is sqrt(variance / n) with the n-1 variance, 0 for n <= 1
roundSem(values) ==
    With(values, LAMBDA x :
        IF Len(x) <= 1 THEN 0
        ELSE roundSqrt(RatDiv(RatDiv(SquaredDeviations(x, meanDM(x)), R(Len(x) - 1)),
                              R(Len(x)))))

median(values) ==
    IF Len(values) = 0 THEN R(0)
    ELSE With(SortedCopy(values), LAMBDA sorted :
             With(Len(sorted) \div 2, LAMBDA mid :          \* 0-based index
                 IF Len(sorted) % 2 # 0 THEN sorted[mid + 1]
                 ELSE RatDiv(RatAdd(sorted[mid], sorted[mid + 1]), R(2))))

quantile(values, q) ==
    IF Len(values) = 0 THEN R(0)
    ELSE With2(SortedCopy(values), RatMul(R(Len(values) - 1), q), LAMBDA sorted, pos :
             With(Floor(pos), LAMBDA base :                  \* 0-based index
                 IF base + 2 <= Len(sorted)
                 THEN RatAdd(sorted[base + 1],
                             RatMul(RatSub(pos, R(base)),
                                    RatSub(sorted[base + 2], sorted[base + 1])))
                 ELSE sorted[base + 1]))

RECURSIVE MinRFrom(_, _)
MinRFrom(x, i) ==
    IF i = Len(x) THEN x[i]
    ELSE With(MinRFrom(x, i + 1), LAMBDA rest : IF RatLT(x[i], rest) THEN x[i] ELSE rest)

RECURSIVE MaxRFrom(_, _)
MaxRFrom(x, i) ==
    IF i = Len(x) THEN x[i]
    ELSE With(MaxRFrom(x, i + 1), LAMBDA rest : IF RatGT(x[i], rest) THEN x[i] ELSE rest)

BoxData(groupName, groupId, values) ==
    [groupName |-> groupName, groupId |-> groupId, values |-> values,
     mean   |-> round(meanDM(values)),
     median |-> round(median(values)),
     min    |-> IF Len(values) > 0 THEN round(MinRFrom(values, 1)) ELSE 0,
     max    |-> IF Len(values) > 0 THEN round(MaxRFrom(values, 1)) ELSE 0,
     q1     |-> round(quantile(values, <<1, 4>>)),
     q3     |-> round(quantile(values, <<3, 4>>))]

toBoxData(groupName, groupId, values) ==
    With(values, LAMBDA x : BoxData(groupName, groupId, x))

-----------------------------------------------------------------------------
(* derivedMetrics: time series, incidence tables, bundles.                 *)

\* variant: the distinct keys in insertion order, without the sort
DistinctUnsorted(keys) == NamesInOrder(keys, {})

\* [...new Set(keys)].sort((a, b) => a - b)
SortedDistinct(keys) == SortSeq(NamesInOrder(keys, {}), LAMBDA a, b : a < b)

\* entities.map(e => recs(e).find(r => keyOf(r) === key)?.value).filter(defined)
ValuesAt(entities, recs(_), keyOf(_), valOf(_), key) ==
    LET hits(e) == SeqFilter(recs(e), LAMBDA r : keyOf(r) = key)
    IN SeqMap(LAMBDA e : R(valOf(hits(e)[1])),
              SeqFilter(entities, LAMBDA e : Len(hits(e)) > 0))

\* sortedDays.map(day => ({day, mean: round(mean(vs)), sem: round(sem(vs))}))
SeriesData(entities, recs(_), keyOf(_), valOf(_), sortedDays) ==
    SeqMap(LAMBDA day :
               With(ValuesAt(entities, recs, keyOf, valOf, day),
                    LAMBDA vs : [day |-> day, mean |-> round(meanDM(vs)), sem |-> roundSem(vs)]),
           sortedDays)

GroupSeries(group, data) ==
    [groupName |-> group.name, groupId |-> group.groupId,
     doseLevel |-> group.doseLevel, data |-> data]

BodyWeightDays(animals) ==
    SortedDistinct(FlatMap(LAMBDA a : SeqMap(LAMBDA bw : bw.day, a.bodyWeights), animals))

computeBodyWeightByGroup(dataset) ==
    SeqMap(LAMBDA group :
               LET groupAnimals == GroupAnimals(dataset, group)
               IN GroupSeries(group,
                      SeriesData(groupAnimals, LAMBDA a : a.bodyWeights,
                                 LAMBDA bw : bw.day, LAMBDA bw : bw.weight,
                                 BodyWeightDays(groupAnimals))),
           dataset.groups)

computeBodyWeightChangeByGroup(dataset) ==
    SeqMap(LAMBDA group :
               LET groupAnimals == GroupAnimals(dataset, group)
               IN GroupSeries(group,
                      SeriesData(groupAnimals, LAMBDA a : a.bodyWeights,
                                 LAMBDA bw : bw.day, LAMBDA bw : bw.changeFromBaseline,
                                 BodyWeightDays(groupAnimals))),
           dataset.groups)

computeFoodConsumptionByGroup(dataset) ==
    SeqMap(LAMBDA group :
               LET groupAnimals == GroupAnimals(dataset, group)
                   sortedStarts ==
                       SortedDistinct(FlatMap(LAMBDA a : SeqMap(LAMBDA fc : fc.dayStart,
                                                                a.foodConsumption),
                                              groupAnimals))
               IN GroupSeries(group,
                      SeriesData(groupAnimals, LAMBDA a : a.foodConsumption,
                                 LAMBDA fc : fc.dayStart, LAMBDA fc : fc.consumption,
                                 sortedStarts)),
           dataset.groups)

\* UTF-16 code units of the first two characters of the terms, for
\* Array.prototype.sort()'s default string order
CodeUnits(term) ==
    CASE term = "Alopecia"   -> <<65, 108>>
      [] term = "eye opening"      -> <<101, 121>>
      [] term = "pinna detachment" -> <<112, 105>>
      [] term = "Tremor"     -> <<84, 114>>
      [] term = "salivation" -> <<115, 97>>
      [] term = "Bent rib"   -> <<66, 101>>
      [] term = "cleft palate" -> <<99, 108>>
      [] term = "external"   -> <<101, 120>>
      [] term = "skeletal"   -> <<115, 107>>
      [] term = "visceral"   -> <<118, 105>>
      [] OTHER               -> <<0>>

RECURSIVE CodeLessFrom(_, _, _)
CodeLessFrom(a, b, i) ==
    IF i > Len(b) THEN FALSE
    ELSE IF i > Len(a) THEN TRUE
    ELSE IF a[i] # b[i] THEN a[i] < b[i]
    ELSE CodeLessFrom(a, b, i + 1)

\* a < b in code-unit order
CodeLess(a, b) == With2(a, b, LAMBDA x, y : CodeLessFrom(x, y, 1))

\* [...termSet].sort()
SortedTerms(terms) ==
    SortSeq(NamesInOrder(terms, {}), LAMBDA a, b : CodeLess(CodeUnits(a), CodeUnits(b)))

computeClinicalSignsIncidence(dataset) ==
    LET terms == SortedTerms(FlatMap(LAMBDA a : SeqMap(LAMBDA obs : obs.findingTerm,
                                                       a.clinicalObservations),
                                     dataset.animals))
    IN SeqMap(LAMBDA term :
                  [findingTerm |-> term,
                   groups |->
                       SeqMap(LAMBDA group :
                                  LET groupAnimals == GroupAnimals(dataset, group)
                                      affected ==
                                          Len(SeqFilter(groupAnimals,
                                                  LAMBDA a : SeqSome(a.clinicalObservations,
                                                      LAMBDA obs : obs.findingTerm = term)))
                                  IN [groupName |-> group.name, groupId |-> group.groupId,
                                      incidence |-> affected, total |-> Len(groupAnimals)],
                              dataset.groups)],
              terms)

computeMaternalData(dataset) ==
    [bodyWeight             |-> computeBodyWeightByGroup(dataset),
     bodyWeightChange       |-> computeBodyWeightChangeByGroup(dataset),
     foodConsumption        |-> computeFoodConsumptionByGroup(dataset),
     clinicalSignsIncidence |-> computeClinicalSignsIncidence(dataset)]

\* round(x) as the number it denotes
Rounded(x) == RNorm(round(x), 100)

\* variant: a zero denominator counts as a loss of 100 percent
LossPercentFullWhenZero(denominator, part) ==
    IF denominator > 0
    THEN Rounded(RatMul(RatDiv(R(denominator - part), R(denominator)), R(100)))
    ELSE R(100)

\* denominator > 0 ? round(((denominator - part) / denominator) * 100) : 0
LossPercent(denominator, part) ==
    IF denominator > 0
    THEN Rounded(RatMul(RatDiv(R(denominator - part), R(denominator)), R(100)))
    ELSE R(0)

computeLitterData(dataset) ==
    LET byGroup(extractor(_)) ==
            SeqMap(LAMBDA group :
                       toBoxData(group.name, group.groupId,
                                 SeqMap(extractor, GroupLitters(dataset, group))),
                   dataset.groups)
    IN [implantations    |-> byGroup(LAMBDA l : R(l.implantations)),
        earlyResorptions |-> byGroup(LAMBDA l : R(l.resorptionsEarly)),
        lateResorptions  |-> byGroup(LAMBDA l : R(l.resorptionsLate)),
        liveFetuses      |-> byGroup(LAMBDA l : R(l.liveFetuses)),
        fetalWeights     |-> byGroup(LAMBDA l : R(l.meanFetalWeight)),
        preImplantationLoss  |->
            byGroup(LAMBDA l : LossPercent(l.corporaLutea, l.implantations)),
        postImplantationLoss |->
            byGroup(LAMBDA l : LossPercent(l.implantations, l.liveFetuses)),
        litterSummaryTable |->
            SeqMap(LAMBDA group :
                       LET groupAnimals == GroupAnimals(dataset, group)
                           groupLitters == GroupLitters(dataset, group)
                           avg(f(_))    == round(meanDM(Rs(SeqMap(f, groupLitters))))
                       IN [groupName |-> group.name, doseLevel |-> group.doseLevel,
                           dams |-> Len(groupAnimals),
                           pregnantDams |->
                               Len(SeqFilter(groupAnimals,
                                             LAMBDA a : a.pregnancyStatus = "pregnant")),
                           littersEvaluated  |-> Len(groupLitters),
                           meanLitterSize    |-> avg(LAMBDA l : l.liveFetuses + l.deadFetuses),
                           meanImplantations |-> avg(LAMBDA l : l.implantations),
                           meanResorptions   |-> avg(LAMBDA l : l.resorptionsEarly + l.resorptionsLate),
                           meanLiveFetuses   |-> avg(LAMBDA l : l.liveFetuses),
                           meanFetalWeight   |-> avg(LAMBDA l : l.meanFetalWeight)],
                   dataset.groups)]

RECURSIVE FirstSeenFrom(_, _, _)
FirstSeenFrom(x, i, seen) ==
    IF i > Len(x) THEN <<>>
    ELSE IF x[i].findingTerm \in seen THEN FirstSeenFrom(x, i + 1, seen)
         ELSE <<x[i]>> \o With(seen \cup {x[i].findingTerm},
                               LAMBDA seen1 : FirstSeenFrom(x, i + 1, seen1))

\* variant: findingMap.set() on every finding, so the last metadata of a term
\* stays (a Map keeps the position of the first insertion of a key)
LastSeen(findings, seen) ==
    With(findings, LAMBDA x :
        SeqMap(LAMBDA f : x[CHOOSE k \in 1..Len(x) :
                              /\ x[k].findingTerm = f.findingTerm
                              /\ \A j \in (k + 1)..Len(x) : x[j].findingTerm # f.findingTerm],
               FirstSeenFrom(x, 1, seen)))

\* findingMap: the findings kept by `if (!findingMap.has(f.findingTerm)) set(...)`,
\* in insertion order
FirstSeen(findings, seen) == With(findings, LAMBDA x : FirstSeenFrom(x, 1, seen))

\* variant: the percentage without its `total > 0` guard; 0 / 0 is NaN, which
\* is no number of hundredths and is written -1
PercentOfUnguarded(affected, total) ==
    IF total # 0 THEN round(RatMul(RatDiv(R(affected), R(total)), R(100))) ELSE -1

\* affected / total * 100 rounded, 0 for total = 0
PercentOf(affected, total) ==
    IF total > 0 THEN round(RatMul(RatDiv(R(affected), R(total)), R(100))) ELSE 0

HasTerm(fetus, term) == SeqSome(fetus.findings, LAMBDA ff : ff.findingTerm = term)

computeFetalFindingsData(dataset) ==
    LET findingMap == FirstSeen(FlatMap(LAMBDA fetus : fetus.findings, dataset.fetuses), {})
        categories == SortedTerms(SeqMap(LAMBDA f : f.examType, findingMap))
        row(meta) ==
            [findingTerm |-> meta.findingTerm, findingCode |-> meta.findingCode,
             examType |-> meta.examType, classification |-> meta.classification,
             groups |->
                 SeqMap(LAMBDA group :
                            LET groupLitters == GroupLitters(dataset, group)
                                groupFetuses == SeqFilter(dataset.fetuses,
                                                    LAMBDA f : f.groupId = group.groupId)
                                affectedLitters ==
                                    Len(SeqFilter(groupLitters,
                                            LAMBDA litter :
                                                SeqSome(SeqFilter(dataset.fetuses,
                                                            LAMBDA f : f.litterId = litter.litterId),
                                                        LAMBDA f : HasTerm(f, meta.findingTerm))))
                                affectedFetuses ==
                                    Len(SeqFilter(groupFetuses,
                                            LAMBDA f : HasTerm(f, meta.findingTerm)))
                            IN [groupName |-> group.name, groupId |-> group.groupId,
                                affectedLitters |-> affectedLitters,
                                totalLitters    |-> Len(groupLitters),
                                percentLitters  |-> PercentOf(affectedLitters, Len(groupLitters)),
                                affectedFetuses |-> affectedFetuses,
                                totalFetuses    |-> Len(groupFetuses),
                                percentFetuses  |-> PercentOf(affectedFetuses, Len(groupFetuses))],
                        dataset.groups)]
    IN [incidenceTable |-> SeqMap(row, findingMap), categories |-> categories]

\* variant: controlSD defaults to 0 when the control has at most one observation
controlVarianceDefaultZero(controlDays) ==
    IF Len(controlDays) > 1
    THEN RatDiv(SquaredDeviations(controlDays, meanDM(controlDays)), R(Len(controlDays) - 1))
    ELSE R(0)

\* Math.sqrt(sum((v - mean)^2) / (n - 1)) for n > 1, else 1; kept as the
\* variance whose root it is
controlVariance(controlDays) ==
    IF Len(controlDays) > 1
    THEN RatDiv(SquaredDeviations(controlDays, meanDM(controlDays)), R(Len(controlDays) - 1))
    ELSE R(1)

\* d > controlMean + controlSD, with controlSD = sqrt(variance)
IsDelayed(d, controlMean, variance) ==
    LET gap == RatSub(d, controlMean)
    IN RatGT(gap, R(0)) /\ RatGT(RatMul(gap, gap), variance)

PupSeries(dataset, keep(_), sortedPNDDays) ==
    SeqMap(LAMBDA group :
               GroupSeries(group,
                   SeriesData(SeqFilter(LivePups(dataset, group), keep),
                              LAMBDA p : p.bodyWeights, LAMBDA bw : bw.day,
                              LAMBDA bw : bw.weight, sortedPNDDays)),
           dataset.groups)

computePostnatalData(dataset) ==
    IF Len(dataset.pups) = 0
    THEN [pupWeightByGroup |-> <<>>, pupWeightByGroupAndSex |-> <<>>,
          milestoneIncidence |-> <<>>, neurobehaviorByGroup |-> <<>>]
    ELSE
    LET sortedPNDDays ==
            SortedDistinct(FlatMap(LAMBDA p : SeqMap(LAMBDA bw : bw.day, p.bodyWeights),
                                   dataset.pups))
        milestoneRow(milestone) ==
            [milestone |-> milestone,
             groups |->
                 SeqMap(LAMBDA group :
                            LET achieved    == Rs(AchievedDays(LivePups(dataset, group), milestone))
                                controlDays == Rs(AchievedDays(LivePups(dataset, dataset.groups[1]),
                                                               milestone))
                                controlMean == meanDM(controlDays)
                                delayed ==
                                    Len(SeqFilter(achieved,
                                            LAMBDA d : IsDelayed(d, controlMean,
                                                                 controlVariance(controlDays))))
                            IN [groupName |-> group.name, groupId |-> group.groupId,
                                meanDay |-> round(meanDM(achieved)),
                                percentDelayed |-> PercentOf(delayed, Len(achieved))],
                        dataset.groups)]
    IN [pupWeightByGroup |-> PupSeries(dataset, LAMBDA p : TRUE, sortedPNDDays),
        pupWeightByGroupAndSex |->
            SeqMap(LAMBDA sex :
                       [sex |-> sex,
                        series |-> PupSeries(dataset, LAMBDA p : p.sex = sex, sortedPNDDays)],
                   <<"male", "female">>),
        milestoneIncidence |-> SeqMap(milestoneRow, MilestoneNames(dataset)),
        neurobehaviorByGroup |->
            SeqMap(LAMBDA group :
                       toBoxData(group.name, group.groupId,
                                 SeqMap(LAMBDA p : R(p.neurobehaviorScore[1]),
                                        SeqFilter(dataset.pups,
                                                  LAMBDA p : p.groupId = group.groupId
                                                             /\ p.neurobehaviorScore # <<>>))),
                   dataset.groups)]

-----------------------------------------------------------------------------
(* Input data: the threshold configuration and the study files on disk.    *)

\* THRESHOLDS as shipped
DefaultThresholds ==
    [maternal |->
         [bodyWeightLossPercent          |-> R(10),
          foodConsumptionDecreasePercent |-> R(20),
          deathCount                     |-> R(1),
          clinicalSignIncidencePercent   |-> R(25)],
     developmental |->
         [earlyResorptionThreshold     |-> <<3, 2>>,
          lateResorptionThreshold      |-> <<4, 5>>,
          fetalWeightDecreasePercent   |-> R(10),
          malformationIncidencePercent |-> R(5),
          variationIncidencePercent    |-> R(15)],
     postnatal |->
         [perinatalMortalityPercent    |-> R(10),
          pupWeightGainDecreasePercent |-> R(15),
          milestoneDelayDays           |-> <<3, 2>>]]

Groups ==
    << [groupId |-> "G1", name |-> "Control", doseLevel |-> 0],
       [groupId |-> "G2", name |-> "Low",     doseLevel |-> 10],
       [groupId |-> "G3", name |-> "High",    doseLevel |-> 100],
       [groupId |-> "G4", name |-> "Top",     doseLevel |-> 300] >>

BW(day, weight, change) ==
    [day |-> day, dayType |-> "GD", weight |-> weight, changeFromBaseline |-> change]

FC(dayStart, consumption) ==
    [dayStart |-> dayStart, dayEnd |-> dayStart + 6, consumption |-> consumption]

Obs(term) == [day |-> 6, findingTerm |-> term, severity |-> "mild"]

\* a dam without its group: body weights, food consumption, observations, death flag
Dam(bws, fcs, obs, dead) ==
    [bodyWeights |-> bws, foodConsumption |-> fcs, clinicalObservations |-> obs,
     maternalDeathFlag |-> dead,
     pregnancyStatus |-> IF dead THEN "not pregnant" ELSE "pregnant"]

bwNone == <<>>
bwFlat == <<BW(0, 100, 0), BW(6, 100, 0)>>
bwM4   == <<BW(6, 100, 0), BW(12, 96, -4)>>
bwM5   == <<BW(0, 100, 0), BW(6, 95, -5)>>
bwM10  == <<BW(0, 100, 0), BW(6, 90, -10)>>
bwM12  == <<BW(0, 100, 0), BW(6, 88, -12)>>
bwDip  == <<BW(0, 100, 0), BW(6, 85, -15), BW(12, 100, 0)>>

\* weighed on days 0, 6, 12; on days 6, 12, 18; and with the records out of order
bwEarly     == <<BW(0, 100, 0), BW(6, 104, 4), BW(12, 110, 10)>>
bwLate      == <<BW(6, 201, 0), BW(12, 207, 3), BW(18, 214, 6)>>
bwUnordered == <<BW(12, 96, -4), BW(0, 100, 0)>>

fcNone == <<>>
fc100  == <<FC(0, 100)>>
fc90   == <<FC(0, 90)>>
fc80   == <<FC(0, 80)>>
fc75   == <<FC(0, 75)>>
fc0    == <<FC(0, 0)>>
fcTwo  == <<FC(0, 100), FC(6, 60)>>
fcLate == <<FC(6, 51), FC(12, 70)>>

Litter(early, late, fetalWeight, born, surviving) ==
    [corporaLutea |-> 12, implantations |-> 10,
     resorptionsEarly |-> early, resorptionsLate |-> late,
     liveFetuses |-> 10 - early - late, deadFetuses |-> 0,
     meanFetalWeight |-> fetalWeight,
     postnatalPups |-> born, pupsSurvivingPND4 |-> surviving]

\* a litter by its corpora lutea, implantations and live fetuses
LitterCounts(corporaLutea, implantations, liveFetuses) ==
    [Litter(0, 0, 40, <<>>, <<>>) EXCEPT !.corporaLutea = corporaLutea,
                                         !.implantations = implantations,
                                         !.liveFetuses = liveFetuses]

Finding(term, code, exam, class) ==
    [findingTerm |-> term, findingCode |-> code, examType |-> exam, classification |-> class]

Milestone(name, day) == [milestone |-> name, dayAchieved |-> day]

Pup(sex, viability, bws, milestones, score) ==
    [sex |-> sex, viabilityStatus |-> viability, bodyWeights |-> bws,
     milestones |-> milestones, neurobehaviorScore |-> score]

\* give the i-th record of a list its id and its group
Placed(records, idField, groupId) ==
    [i \in 1..Len(records) |->
        [f \in DOMAIN records[i] \cup {idField, "groupId"} |->
            IF f = idField THEN <<groupId, i>>
            ELSE IF f = "groupId" THEN groupId
            ELSE records[i][f]]]

\* A StudyDataset.  perGroup[g] = [dams, litters] of group g, where a litter
\* is [litter, fetuses, pups]: fetuses a list of findings lists, pups a list of pups.
Dataset(studyId, perGroup) ==
    LET n  == Len(perGroup)
        gs == SubSeq(Groups, 1, n)
        littersOf(g) ==
            Placed(SeqMap(LAMBDA x : x.litter, perGroup[g].litters), "litterId", gs[g].groupId)
        fetusesOf(g) ==
            Flatten([j \in 1..Len(perGroup[g].litters) |->
                [k \in 1..Len(perGroup[g].litters[j].fetuses) |->
                    [fetusId |-> <<gs[g].groupId, j, k>>,
                     litterId |-> <<gs[g].groupId, j>>, groupId |-> gs[g].groupId,
                     findings |-> perGroup[g].litters[j].fetuses[k]]]])
        pupsOf(g) ==
            Flatten([j \in 1..Len(perGroup[g].litters) |->
                [k \in 1..Len(perGroup[g].litters[j].pups) |->
                    [f \in DOMAIN perGroup[g].litters[j].pups[k]
                           \cup {"pupId", "litterId", "groupId"} |->
                        IF f = "pupId" THEN <<gs[g].groupId, j, k>>
                        ELSE IF f = "litterId" THEN <<gs[g].groupId, j>>
                        ELSE IF f = "groupId" THEN gs[g].groupId
                        ELSE perGroup[g].litters[j].pups[k][f]]]])
    IN [study   |-> [studyId |-> studyId],
        groups  |-> gs,
        animals |-> Flatten([g \in 1..n |-> Placed(perGroup[g].dams, "animalId", gs[g].groupId)]),
        litters |-> Flatten([g \in 1..n |-> littersOf(g)]),
        fetuses |-> Flatten([g \in 1..n |-> fetusesOf(g)]),
        pups    |-> Flatten([g \in 1..n |-> pupsOf(g)])]

\* a group with dams only
DamsOnly(dams) == [dams |-> dams, litters |-> <<>>]

\* all lists over S of length lo..hi
RECURSIVE ListsOf(_, _)
ListsOf(S, n) ==
    IF n = 0 THEN {<<>>} ELSE {Append(l, x) : l \in ListsOf(S, n - 1), x \in S}
ListsUpTo(S, lo, hi) == UNION {ListsOf(S, n) : n \in lo..hi}

-----------------------------------------------------------------------------
(* Bounds.                                                                 *)

\* evaluateAlerts calls explored per behaviour
MaxEvaluations == 3
\* POST /refresh calls explored per behaviour
MaxRefresh == 1
\* longest alert list handed to deriveRiskBadge
MaxLen == 3
\* threshold edits explored per behaviour
MaxEdits == 2

-----------------------------------------------------------------------------
(* Scenarios: a threshold configuration and the files on disk.             *)

Scenario(thresholds, files) == [thresholds |-> thresholds, disk |-> files]

OneStudy(perGroup) == "STUDY-A" :> Dataset("STUDY-A", perGroup)

BodyWeightSeries == {bwNone, bwFlat, bwM4, bwM5, bwM10, bwM12, bwDip}

\* body-weight rule: one or two treated groups of 0..2 dams, control quiet or not
BodyWeightScenarios ==
    { Scenario([DefaultThresholds EXCEPT !.maternal.bodyWeightLossPercent = T],
               OneStudy(<<DamsOnly(ctrl), DamsOnly(dams)>>)) :
        T \in {R(10), R(5)},
        ctrl \in { <<Dam(bwFlat, fc100, <<>>, FALSE)>>, <<Dam(bwM12, fc100, <<>>, FALSE)>> },
        dams \in ListsUpTo({Dam(b, fc100, <<>>, FALSE) : b \in BodyWeightSeries}, 0, 2) }

FoodSeries == {fcNone, fc100, fc90, fc80, fc75, fc0, fcTwo}

FoodScenarios ==
    { Scenario([DefaultThresholds EXCEPT !.maternal.foodConsumptionDecreasePercent = T],
               OneStudy(<<DamsOnly(ctrl), DamsOnly(dams)>>)) :
        T \in {R(20), R(10), R(25)},
        ctrl \in { <<Dam(bwFlat, fc100, <<>>, FALSE)>>, <<Dam(bwFlat, fc0, <<>>, FALSE)>>,
                   <<Dam(bwFlat, fcNone, <<>>, FALSE)>>,
                   <<Dam(bwFlat, fc75, <<>>, FALSE), Dam(bwFlat, fcTwo, <<>>, FALSE)>> },
        dams \in ListsUpTo({Dam(bwFlat, f, <<>>, FALSE) : f \in FoodSeries}, 0, 2) }

DeathScenarios ==
    { Scenario([DefaultThresholds EXCEPT !.maternal.deathCount = T],
               OneStudy(<<DamsOnly(ctrl), DamsOnly(dams)>>)) :
        T \in {R(0), R(1), R(2), R(3)},
        ctrl \in { <<Dam(bwFlat, fc100, <<>>, FALSE)>>, <<Dam(bwFlat, fc100, <<>>, TRUE)>> },
        dams \in ListsUpTo({Dam(bwFlat, fc100, <<>>, d) : d \in BOOLEAN}, 0, 3) }

\* litters with their fetuses (one findings list per fetus) and pups
Pregnancy(litter, fetuses, pups) == [litter |-> litter, fetuses |-> fetuses, pups |-> pups]

cleft   == Finding("cleft palate", "F01", "external", "malformation")
bentRib == Finding("Bent rib", "F02", "skeletal", "variation")
\* the same term recorded with other metadata
bentRibAsMalformation == Finding("Bent rib", "F09", "visceral", "malformation")

PupWeights(last) == << [day |-> 1, weight |-> 6], [day |-> 21, weight |-> last] >>

eyes(day)  == Milestone("eye opening", day)
pinna(day) == Milestone("pinna detachment", day)

quietDam == Dam(bwFlat, fc100, <<>>, FALSE)

quietLitter == Pregnancy(Litter(0, 0, 40, <<>>, <<>>), << <<>>, <<>> >>, <<>>)

quietGroup == [dams |-> <<quietDam, quietDam>>, litters |-> <<quietLitter>>]

\* a control group whose own data would trip every maternal rule
loudControl ==
    [dams |-> << Dam(bwM12, fc100, <<Obs("Tremor")>>, TRUE),
                 Dam(bwDip, fcTwo, <<Obs("Alopecia"), Obs("Tremor")>>, TRUE), quietDam >>,
     litters |-> << Pregnancy(Litter(3, 2, 40, <<10>>, <<5>>), << <<cleft>>, <<>> >>,
                              << Pup("male", "live", PupWeights(50), <<eyes(<<14>>)>>, <<7>>),
                                 Pup("female", "live", PupWeights(48),
                                     <<eyes(<<15>>), pinna(<<4>>)>>, <<>>) >>) >>]

lowGroup ==
    [dams |-> << Dam(bwM5, fc90, <<Obs("salivation")>>, FALSE),
                 Dam(bwM10, fc80, <<>>, TRUE), Dam(bwNone, fcNone, <<>>, FALSE) >>,
     litters |-> << Pregnancy(Litter(2, 1, 37, <<10>>, <<8>>), << <<bentRib>>, <<>> >>,
                              << Pup("male", "live", PupWeights(45), <<eyes(<<16>>)>>, <<6>>),
                                 Pup("female", "dead", <<>>, <<eyes(<<>>)>>, <<>>) >>),
                    Pregnancy(Litter(1, 0, 39, <<>>, <<>>), << <<>> >>, <<>>) >>]

highGroup ==
    [dams |-> << Dam(bwM12, fc75, <<Obs("Tremor")>>, TRUE),
                 Dam(bwDip, fc0, <<Obs("Tremor"), Obs("Alopecia")>>, TRUE), quietDam >>,
     litters |-> << Pregnancy(Litter(3, 2, 30, <<10>>, <<6>>),
                              << <<bentRibAsMalformation, cleft>>, <<bentRib>> >>,
                              << Pup("female", "live", PupWeights(38),
                                     <<pinna(<<8>>), eyes(<<18>>)>>, <<3>>),
                                 Pup("male", "live", <<>>, <<eyes(<<>>)>>, <<>>) >>) >>]

\* study designs without a postnatal phase: no pups
NoPups(group) ==
    [dams |-> group.dams,
     litters |-> SeqMap(LAMBDA x : Pregnancy(x.litter, x.fetuses, <<>>), group.litters)]

StudyDesigns ==
    { <<>>,                                              \* no groups at all
      <<loudControl>>,                                   \* control only
      <<quietGroup, quietGroup>>,
      <<loudControl, lowGroup>>,
      <<loudControl, lowGroup, highGroup>>,
      <<quietGroup, highGroup, lowGroup>>,
      <<NoPups(loudControl), NoPups(highGroup)>>,
      <<quietGroup, DamsOnly(<<>>), NoPups(lowGroup)>> } \* a group without dams

SecondStudyDesigns ==
    { <<quietGroup, quietGroup>>, <<quietGroup, lowGroup>>, <<loudControl, highGroup, lowGroup>> }

\* two study files, shipped thresholds
TwoStudyScenarios ==
    { Scenario(DefaultThresholds,
               ("STUDY-A" :> Dataset("STUDY-A", a)) @@ ("STUDY-B" :> Dataset("STUDY-B", b))) :
        a \in StudyDesigns, b \in SecondStudyDesigns }

\* control groups whose data make a rule's denominator zero: no litters and no
\* pups; fetal weight 0 and last pup weight 0; only a dead pup; a live pup
\* never weighed; and one with non-zero denominators
ZeroControls ==
    { DamsOnly(<<quietDam>>),
      [dams |-> <<Dam(bwFlat, fc0, <<>>, FALSE)>>,
       litters |-> << Pregnancy(Litter(0, 0, 0, <<10>>, <<10>>), << <<>> >>,
                                << Pup("male", "live", PupWeights(0), <<>>, <<>>) >>) >>],
      [dams |-> <<quietDam>>,
       litters |-> << Pregnancy(Litter(0, 0, 40, <<10>>, <<10>>), << <<>> >>,
                                << Pup("male", "dead", PupWeights(50), <<>>, <<>>) >>) >>],
      [dams |-> <<Dam(bwFlat, fcNone, <<>>, FALSE)>>,
       litters |-> << Pregnancy(Litter(0, 0, 40, <<10>>, <<10>>), << <<>> >>,
                                << Pup("female", "live", <<>>, <<>>, <<>>) >>) >>],
      [dams |-> <<quietDam>>,
       litters |-> << Pregnancy(Litter(0, 0, 40, <<10>>, <<10>>), << <<>> >>,
                                << Pup("male", "live", PupWeights(50), <<>>, <<>>) >>) >>] }

\* treated groups: no pups born (0 or null counts) with a death; half of the
\* pups lost; a live pup never weighed beside a dead one; no litters at all
ZeroTreated ==
    { [dams |-> <<Dam(bwFlat, fc75, <<>>, TRUE)>>,
       litters |-> << Pregnancy(Litter(0, 0, 30, <<0>>, <<0>>), << <<>> >>,
                                << Pup("male", "live", PupWeights(38), <<>>, <<>>) >>) >>],
      [dams |-> <<Dam(bwFlat, fc75, <<>>, TRUE)>>,
       litters |-> << Pregnancy(Litter(0, 0, 30, <<>>, <<>>), << <<>> >>,
                                << Pup("female", "live", PupWeights(38), <<>>, <<>>) >>) >>],
      [dams |-> <<quietDam>>,
       litters |-> << Pregnancy(Litter(0, 0, 36, <<10>>, <<5>>), << <<>> >>,
                                << Pup("male", "live", PupWeights(45), <<>>, <<>>) >>) >>],
      [dams |-> <<quietDam>>,
       litters |-> << Pregnancy(Litter(0, 0, 40, <<10>>, <<10>>), << <<>> >>,
                                << Pup("female", "live", <<>>, <<>>, <<>>),
                                   Pup("male", "dead", PupWeights(45), <<>>, <<>>) >>) >>],
      DamsOnly(<<quietDam>>) }

ZeroDenominatorScenarios ==
    { Scenario(DefaultThresholds, OneStudy(<<c, t>>)) : c \in ZeroControls, t \in ZeroTreated }

\* a live pup that opened its eyes on `day` (<<>>: not yet)
EyePup(day) == Pup("male", "live", PupWeights(40), <<eyes(day)>>, <<>>)

\* the pups of a control with no, one, two spread, two equal achievement days;
\* a dead pup's day does not count
MilestoneControls ==
    { <<EyePup(<<>>)>>,
      <<EyePup(<<14>>), Pup("female", "dead", <<>>, <<eyes(<<30>>)>>, <<>>)>>,
      <<EyePup(<<10>>), EyePup(<<20>>)>>,
      <<EyePup(<<14>>), EyePup(<<14>>)>> }

\* a control and one treated group of 0..2 pups achieving on days around the
\* control's mean + SD
MilestoneDesigns ==
    { << [dams |-> <<quietDam>>,
          litters |-> <<Pregnancy(Litter(0, 0, 40, <<2>>, <<2>>), <<>>, c)>>],
         [dams |-> <<quietDam>>,
          litters |-> <<Pregnancy(Litter(0, 0, 40, <<2>>, <<2>>), <<>>, t)>>] >> :
        c \in MilestoneControls,
        t \in ListsUpTo({EyePup(d) : d \in {<<>>, <<1>>, <<2>>, <<14>>, <<15>>, <<16>>,
                                             <<22>>, <<23>>}}, 0, 2) }

\* milestone-delay rule: shipped thresholds, the milestone designs
MilestoneScenarios == { Scenario(DefaultThresholds, OneStudy(d)) : d \in MilestoneDesigns }

\* litters by their (early, late) resorption counts
ResorptionLitters ==
    { Pregnancy(Litter(c[1], c[2], 40, <<>>, <<>>), <<>>, <<>>) :
        c \in { <<0, 0>>, <<1, 0>>, <<2, 1>>, <<3, 0>>, <<4, 1>>, <<0, 7>> } }

\* resorption rule: a quiet control and one treated group of 0..2 litters
ResorptionScenarios ==
    { Scenario([DefaultThresholds EXCEPT !.developmental.earlyResorptionThreshold = E,
                                         !.developmental.lateResorptionThreshold = L],
               OneStudy(<<quietGroup, [dams |-> <<quietDam>>, litters |-> ls]>>)) :
        E \in {<<3, 2>>, R(2)}, L \in {<<4, 5>>, R(1)},
        ls \in ListsUpTo(ResorptionLitters, 0, 2) }

EngineScenarios ==
    BodyWeightScenarios \cup FoodScenarios \cup DeathScenarios \cup TwoStudyScenarios
        \cup ZeroDenominatorScenarios \cup MilestoneScenarios \cup ResorptionScenarios

-----------------------------------------------------------------------------
(* The state machine.                                                      *)

\* the state once the process listens, all but the record of the last
\* statistical helper call
InitStore(scenarios) ==
    \E sc \in scenarios :
        /\ THRESHOLDS = sc.thresholds
        /\ disk = sc.disk
        /\ datasets = sc.disk          \* index.ts: loadAllStudies() before listen
        /\ refreshCount = 1
        /\ alertCounter = 0
        /\ evalCalls = 0
        /\ evalResp = <<>>
        /\ minted = <<>>
        /\ aggResp = <<>>
        /\ riskBadge = <<>>
        /\ lastRefreshTime = 0
        /\ configResp = <<>>
        /\ httpResp = <<>>

InitWith(scenarios) == InitStore(scenarios) /\ statResp = <<>>

Init == InitWith(EngineScenarios)

\* loadAllStudies() via triggerRefresh(): the store is rebuilt from the files
LoadAllStudies ==
    /\ refreshCount <= MaxRefresh
    /\ datasets' = disk
    /\ refreshCount' = refreshCount + 1
    /\ lastRefreshTime' \in {lastRefreshTime, lastRefreshTime + 1}
    /\ UNCHANGED <<THRESHOLDS, alertCounter, disk, evalCalls, evalResp, minted,
                   aggResp, riskBadge, statResp, configResp, httpResp>>

\* evaluateAlerts(getStudyById(studyId))
EvaluateAlerts(studyId) ==
    /\ evalCalls < MaxEvaluations
    /\ \E r \in {evaluateAlerts(datasets[studyId], alertCounter)} :
          /\ alertCounter' = r.counter
          /\ datasets' = [datasets EXCEPT ![studyId] = r.dataset]
          /\ evalResp' =
                 << [studyId |-> studyId, start |-> alertCounter, alerts |-> r.alerts,
                     prev |-> IF evalResp # <<>> /\ evalResp[1].studyId = studyId
                              THEN << [start |-> evalResp[1].start,
                                       alerts |-> evalResp[1].alerts] >>
                              ELSE <<>>] >>
          /\ minted' = minted \o SeqMap(LAMBDA a : a.alertId, r.alerts)
    /\ evalCalls' = evalCalls + 1
    /\ UNCHANGED <<THRESHOLDS, refreshCount, lastRefreshTime, disk, aggResp,
                   riskBadge, statResp, configResp, httpResp>>

Next ==
    \/ LoadAllStudies
    \/ \E studyId \in DOMAIN datasets : EvaluateAlerts(studyId)

Spec == Init /\ [][Next]_vars

-----------------------------------------------------------------------------
(* Aggregation calls.                                                      *)

Aggregations ==
    {"computeMaternalData", "computeLitterData", "computeFetalFindingsData",
     "computePostnatalData"}

\* what the compute* function named fn returns
ComputeOut(fn, dataset) ==
    CASE fn = "computeMaternalData"      -> computeMaternalData(dataset)
      [] fn = "computeLitterData"        -> computeLitterData(dataset)
      [] fn = "computeFetalFindingsData" -> computeFetalFindingsData(dataset)
      [] fn = "computePostnatalData"     -> computePostnatalData(dataset)

\* variant: the output is stamped with the alert counter
computeCallStamped(fn, dataset) ==
    [out |-> [data |-> ComputeOut(fn, dataset), generation |-> alertCounter],
     dataset |-> dataset]

\* animal.foodConsumption.sort((a, b) => a.consumption - b.consumption) on every dam
SortedInPlace(dataset) ==
    [dataset EXCEPT !.animals =
        SeqMap(LAMBDA a : [a EXCEPT !.foodConsumption =
                               SortSeq(a.foodConsumption,
                                       LAMBDA x, y : x.consumption < y.consumption)],
               dataset.animals)]

\* variant: the records are sorted in place rather than on a copy
computeCallSortsInPlace(fn, dataset) ==
    [out |-> ComputeOut(fn, dataset), dataset |-> SortedInPlace(dataset)]

\* one compute* call: what it returns, and the dataset object as it leaves it
computeCall(fn, dataset) == [out |-> ComputeOut(fn, dataset), dataset |-> dataset]

Compute(fn, studyId) ==
    /\ \E r \in {computeCall(fn, datasets[studyId])} :
          /\ datasets' = [datasets EXCEPT ![studyId] = r.dataset]
          /\ aggResp' =
                 << [fn |-> fn, studyId |-> studyId, out |-> r.out,
                     counter |-> alertCounter,
                     prev |-> IF /\ aggResp # <<>>
                                 /\ aggResp[1].fn = fn
                                 /\ aggResp[1].studyId = studyId
                              THEN << [out |-> aggResp[1].out,
                                       counter |-> aggResp[1].counter] >>
                              ELSE <<>>] >>
    /\ UNCHANGED <<THRESHOLDS, refreshCount, lastRefreshTime, alertCounter, disk,
                   evalCalls, evalResp, minted, riskBadge, statResp, configResp,
                   httpResp>>

AggScenarios == { Scenario(DefaultThresholds, OneStudy(d)) : d \in StudyDesigns }

InitAgg == InitWith(AggScenarios)

NextAgg ==
    \/ LoadAllStudies
    \/ \E studyId \in DOMAIN datasets : EvaluateAlerts(studyId)
    \/ \E studyId \in DOMAIN datasets, fn \in Aggregations : Compute(fn, studyId)

SpecAgg == InitAgg /\ [][NextAgg]_vars

-----------------------------------------------------------------------------
(* Aggregation calls on study files built for the aggregation contracts.   *)

SeriesDams ==
    { Dam(bwEarly, fcTwo, <<>>, FALSE), Dam(bwLate, fcLate, <<>>, FALSE),
      Dam(bwUnordered, fc100, <<>>, FALSE), Dam(bwNone, fcNone, <<>>, FALSE) }

\* a quiet control and one treated group of 0..2 dams weighed on differing days
SeriesDesigns == { <<DamsOnly(<<quietDam>>), DamsOnly(dams)>> : dams \in ListsUpTo(SeriesDams, 0, 2) }

\* pups of the control weighed on days 1 and 21, the treated pup on days 1 and 7
PupSeriesDesigns ==
    { << [dams |-> <<quietDam>>,
          litters |-> << Pregnancy(Litter(0, 0, 40, <<2>>, <<2>>), << <<>> >>,
                                   << Pup("male", "live", PupWeights(50), <<>>, <<>>),
                                      Pup("female", "live", PupWeights(48), <<>>, <<>>) >>) >>],
         [dams |-> <<quietDam>>,
          litters |-> << Pregnancy(Litter(0, 0, 40, <<1>>, <<1>>), << <<>> >>,
                                   << Pup("male", "live",
                                          << [day |-> 1, weight |-> 6],
                                             [day |-> 7, weight |-> 15] >>,
                                          <<>>, <<>>) >>) >>] >> }

\* litters without corpora lutea, without implantations, and with losses
\* of 16.67 / 20, 33.33 / 50 and 0 / 100 percent
CountedLitters ==
    { Pregnancy(LitterCounts(c[1], c[2], c[3]), <<>>, <<>>) :
        c \in { <<0, 0, 0>>, <<0, 5, 5>>, <<12, 0, 0>>, <<12, 10, 8>>, <<3, 2, 1>> } }

\* a quiet control and one treated group of 0..2 such litters
LitterDesigns ==
    { <<quietGroup, [dams |-> <<quietDam>>, litters |-> ls]>> :
        ls \in ListsUpTo(CountedLitters, 0, 2) }

MetricDesigns ==
    StudyDesigns \cup SeriesDesigns \cup PupSeriesDesigns \cup LitterDesigns
        \cup MilestoneDesigns

MetricScenarios == { Scenario(DefaultThresholds, OneStudy(d)) : d \in MetricDesigns }

InitMetrics == InitWith(MetricScenarios)

NextMetrics == \E studyId \in DOMAIN datasets, fn \in Aggregations : Compute(fn, studyId)

SpecMetrics == InitMetrics /\ [][NextMetrics]_vars

-----------------------------------------------------------------------------
(* Risk badge calls.                                                       *)

AlertOf(severity, category) ==
    [alertId |-> FormatAlertId(1), studyId |-> "STUDY-A", groupId |-> "G2",
     category |-> category, severity |-> severity,
     message |-> Msg("", ToFixed(R(0), 0), Groups[2]), endpoint |-> category]

BadgeInputs ==
    ListsUpTo({AlertOf(s, "maternal") : s \in {"red", "yellow", "green"}}
              \cup {AlertOf(s, "postnatal") : s \in {"red", "yellow"}}, 0, MaxLen)

DeriveRiskBadge(as) ==
    /\ riskBadge' = << [alerts |-> as, badge |-> deriveRiskBadge(as)] >>
    /\ UNCHANGED <<THRESHOLDS, datasets, refreshCount, lastRefreshTime, alertCounter,
                   disk, evalCalls, evalResp, minted, aggResp, statResp, configResp,
                   httpResp>>

InitBadge == InitWith({Scenario(DefaultThresholds, OneStudy(<<quietGroup, quietGroup>>))})

NextBadge == \E as \in BadgeInputs : DeriveRiskBadge(as)

SpecBadge == InitBadge /\ [][NextBadge]_vars

-----------------------------------------------------------------------------
(* The REST API: one action per route of studyRouter.                      *)

computePregnancyOutcomes(dataset) ==
    SeqMap(LAMBDA group :
               With(GroupAnimals(dataset, group), LAMBDA groupAnimals :
                   [groupName |-> group.name, groupId |-> group.groupId,
                    pregnant |->
                        Len(SeqFilter(groupAnimals, LAMBDA a : a.pregnancyStatus = "pregnant")),
                    notPregnant |->
                        Len(SeqFilter(groupAnimals, LAMBDA a : a.pregnancyStatus = "not pregnant")),
                    aborted |->
                        Len(SeqFilter(groupAnimals, LAMBDA a : a.pregnancyStatus = "aborted"))]),
           dataset.groups)

\* getAllStudies(): the ids of the store in insertion order, the order of STUDY_FILES
StudyOrder == SelectSeq(<<"STUDY-A", "STUDY-B">>, LAMBDA id : id \in DOMAIN datasets)

\* the ids a request may name: those of the store and one that is not there
RequestIds == DOMAIN datasets \cup {"STUDY-X"}

\* evaluateAlerts(ds) for the datasets ids[i..], each started with the counter
\* the one before left; acc = [counter, calls], a call [studyId, start, alerts, dataset]
RECURSIVE EvalEach(_, _, _)
EvalEach(ids, i, acc) ==
    IF i > Len(ids) THEN acc
    ELSE With(evaluateAlerts(datasets[ids[i]], acc.counter), LAMBDA r :
             EvalEach(ids, i + 1,
                      [counter |-> r.counter,
                       calls |-> Append(acc.calls,
                                        [studyId |-> ids[i], start |-> acc.counter,
                                         alerts |-> r.alerts, dataset |-> r.dataset])]))

EvalAll(ids) == EvalEach(ids, 1, [counter |-> alertCounter, calls |-> <<>>])

\* the store after the calls: a dataset object is as its last call left it
RECURSIVE StoredAfter(_, _, _)
StoredAfter(store, calls, i) ==
    IF i > Len(calls) THEN store
    ELSE StoredAfter([store EXCEPT ![calls[i].studyId] = calls[i].dataset], calls, i + 1)

\* what a handler did: the response and the module state it leaves
Handled(status, body, ev) ==
    [status |-> status, body |-> body, counter |-> ev.counter, calls |-> ev.calls,
     stored |-> StoredAfter(datasets, ev.calls, 1)]

NoCalls == [counter |-> alertCounter, calls |-> <<>>]

\* res.status(404).json({ error: 'Study not found' })
NotFound == Handled(404, [error |-> "Study not found"], NoCalls)

\* Math.round((pregnantDams / totalDams) * 100)
PercentPregnant(ds) ==
    With2(Len(SeqFilter(ds.animals, LAMBDA a : a.pregnancyStatus = "pregnant")),
          Len(ds.animals),
          LAMBDA pregnantDams, totalDams :
        IF totalDams > 0
        THEN (2 * pregnantDams * 100 + totalDams) \div (2 * totalDams)
        ELSE 0)

\* GET /studies
studies ==
    With(EvalAll(StudyOrder), LAMBDA ev :
        Handled(200,
                SeqMap(LAMBDA c :
                           [studyId |-> c.dataset.study.studyId,
                            riskBadge |-> deriveRiskBadge(c.alerts),
                            totalDams |-> Len(c.dataset.animals),
                            percentPregnant |-> PercentPregnant(c.dataset),
                            lastRefresh |-> lastRefreshTime,
                            activeAlerts |-> Len(c.alerts)],
                       ev.calls),
                ev))

\* GET /studies/:id
study(id) ==
    IF id \notin DOMAIN datasets THEN NotFound ELSE Handled(200, datasets[id], NoCalls)

MaternalStatus(maternalAlerts) ==
    IF SeqSome(maternalAlerts, LAMBDA a : a.severity = "red")
    THEN "Maternal toxicity detected at high dose"
    ELSE IF SeqSome(maternalAlerts, LAMBDA a : a.severity = "yellow")
    THEN "Possible maternal effects at high dose"
    ELSE "No significant maternal toxicity"

DevelopmentalStatus(devAlerts) ==
    IF SeqSome(devAlerts, LAMBDA a : a.severity = "red")
    THEN "Developmental toxicity detected"
    ELSE IF SeqSome(devAlerts, LAMBDA a : a.severity = "yellow")
    THEN "Emerging developmental signals"
    ELSE "No significant developmental toxicity"

\* GET /studies/:id/overview
overview(id) ==
    IF id \notin DOMAIN datasets THEN NotFound
    ELSE With(EvalAll(<<id>>), LAMBDA ev :
             Handled(200,
                     [study |-> ev.calls[1].dataset.study,
                      maternalToxicityStatus |->
                          MaternalStatus(SeqFilter(ev.calls[1].alerts,
                                                   LAMBDA a : a.category = "maternal")),
                      developmentalToxicityStatus |->
                          DevelopmentalStatus(
                              SeqFilter(ev.calls[1].alerts,
                                        LAMBDA a : a.category \in {"developmental", "postnatal"})),
                      bodyWeightByGroup |-> computeBodyWeightByGroup(ev.calls[1].dataset),
                      foodConsumptionByGroup |->
                          computeFoodConsumptionByGroup(ev.calls[1].dataset),
                      pregnancyOutcomeByGroup |->
                          computePregnancyOutcomes(ev.calls[1].dataset),
                      alerts |-> ev.calls[1].alerts],
                     ev))

\* GET /studies/:id/maternal, /litter, /fetal, /postnatal
aggregation(fn, id) ==
    IF id \notin DOMAIN datasets THEN NotFound
    ELSE With(computeCall(fn, datasets[id]), LAMBDA r :
             [status |-> 200, body |-> r.out, counter |-> alertCounter, calls |-> <<>>,
              stored |-> [datasets EXCEPT ![id] = r.dataset]])

\* ds.litters.find(l => l.damAnimalId === animal.animalId); in the study files
\* built here the i-th litter of a group is that of its i-th dam
LitterOf(ds, animal) == SeqFilter(ds.litters, LAMBDA l : l.litterId = animal.animalId)

\* GET /studies/:id/animals
animals(id) ==
    IF id \notin DOMAIN datasets THEN NotFound
    ELSE With(datasets[id], LAMBDA ds :
             Handled(200,
                     SeqMap(LAMBDA animal :
                                With2(LitterOf(ds, animal),
                                      SeqFilter(ds.groups,
                                                LAMBDA g : g.groupId = animal.groupId),
                                      LAMBDA litter, group :
                                    [animal |-> animal,
                                     groupName |-> IF group # <<>> THEN group[1].name ELSE "",
                                     doseLevel |-> IF group # <<>> THEN group[1].doseLevel ELSE 0,
                                     litter |-> IF litter # <<>> THEN <<litter[1]>> ELSE <<>>,
                                     fetuses |->
                                         IF litter # <<>>
                                         THEN SeqFilter(ds.fetuses,
                                                        LAMBDA f : f.litterId = litter[1].litterId)
                                         ELSE <<>>,
                                     pups |->
                                         IF litter # <<>>
                                         THEN SeqFilter(ds.pups,
                                                        LAMBDA q : q.litterId = litter[1].litterId)
                                         ELSE <<>>]),
                            ds.animals),
                     NoCalls))

\* GET /studies/:id/alerts
alerts(id) ==
    IF id \notin DOMAIN datasets THEN NotFound
    ELSE With(EvalAll(<<id>>), LAMBDA ev : Handled(200, ev.calls[1].alerts, ev))

\* the endpoints of the heat map, each with the text looked for in a message
Endpoints ==
    << [name |-> "Maternal Body Weight", text |-> "body weight"],
       [name |-> "Food Consumption",     text |-> "food consumption"],
       [name |-> "Early Resorptions",    text |-> "early resorption"],
       [name |-> "Late Resorptions",     text |-> "late resorption"],
       [name |-> "Fetal Weight",         text |-> "fetal weight"],
       [name |-> "Malformations",        text |-> "malformation"],
       [name |-> "Variations",           text |-> "variation"],
       [name |-> "Pup Mortality",        text |-> "pup mortality"],
       [name |-> "Pup Weight",           text |-> "pup weight"] >>

\* a.message.toLowerCase().includes(text): the endpoint texts that occur in
\* the lower-cased text of each message template; none occurs in a milestone
\* name or a group name of the study files, nor in a formatted number
TextsIn(template) ==
    CASE template \in {"Maternal body weight loss >%s% in ",
                       "Mean maternal body weight change %s% in "} -> {"body weight"}
      [] template = "Food consumption decreased %s% vs control in " -> {"food consumption"}
      [] template = "Mean early resorptions %s/litter in " -> {"early resorption"}
      [] template = "Mean late resorptions %s/litter in " -> {"late resorption"}
      [] template = "Mean fetal weight decreased %s% vs control in " -> {"fetal weight"}
      [] template = "%s% litters with malformations in " -> {"malformation"}
      [] template = "Perinatal pup mortality %s% in " -> {"pup mortality"}
      [] template = "Pup weight gain decreased %s% vs control in " -> {"pup weight"}
      [] OTHER -> {}

\* the heat-map rows of one dataset
HeatmapRows(c) ==
    SeqMap(LAMBDA endpoint :
               [studyId |-> c.dataset.study.studyId, endpoint |-> endpoint.name,
                groups |->
                    SeqMap(LAMBDA group :
                               With(deriveRiskBadge(
                                        SeqFilter(c.alerts,
                                                  LAMBDA a : /\ a.groupId = group.groupId
                                                             /\ endpoint.text
                                                                    \in TextsIn(a.message.template))),
                                    LAMBDA worstSeverity :
                                   [groupName |-> group.name,
                                    value |-> IF worstSeverity = "red" THEN 2
                                              ELSE IF worstSeverity = "yellow" THEN 1 ELSE 0,
                                    severity |-> worstSeverity]),
                           c.dataset.groups)],
           Endpoints)

\* GET /cross-study
crossStudy ==
    With(EvalAll(StudyOrder), LAMBDA ev :
        Handled(200,
                [studies |-> SeqMap(LAMBDA c : c.dataset.study, ev.calls),
                 endpoints |-> SeqMap(LAMBDA e : e.name, Endpoints),
                 heatmap |-> FlatMap(HeatmapRows, ev.calls)],
                ev))

\* evalResp after the evaluateAlerts calls of a handler
RECURSIVE NoteCalls(_, _, _)
NoteCalls(resp, calls, i) ==
    IF i > Len(calls) THEN resp
    ELSE NoteCalls(<< [studyId |-> calls[i].studyId, start |-> calls[i].start,
                       alerts |-> calls[i].alerts,
                       prev |-> IF resp # <<>> /\ resp[1].studyId = calls[i].studyId
                                THEN << [start |-> resp[1].start,
                                         alerts |-> resp[1].alerts] >>
                                ELSE <<>>] >>,
                   calls, i + 1)

\* the handler of a GET request ran with result r and the response was sent
Serve(route, id, r) ==
    /\ alertCounter' = r.counter
    /\ datasets' = r.stored
    /\ evalCalls' = evalCalls + Len(r.calls)
    /\ evalResp' = NoteCalls(evalResp, r.calls, 1)
    /\ minted' = minted \o FlatMap(LAMBDA c : SeqMap(LAMBDA a : a.alertId, c.alerts), r.calls)
    /\ httpResp' =
           << [method |-> "GET", route |-> route, id |-> id,
               status |-> r.status, body |-> r.body,
               prev |-> IF /\ httpResp # <<>>
                           /\ httpResp[1].method = "GET"
                           /\ httpResp[1].route = route
                           /\ httpResp[1].id = id
                        THEN <<httpResp[1].body>> ELSE <<>>] >>
    /\ UNCHANGED <<THRESHOLDS, refreshCount, lastRefreshTime, disk, aggResp, riskBadge,
                   statResp, configResp>>

GetStudies ==
    /\ evalCalls < MaxEvaluations
    /\ \E r \in {studies} : Serve("/studies", "", r)

GetStudy(id) == \E r \in {study(id)} : Serve("/studies/:id", id, r)

GetOverview(id) ==
    /\ evalCalls < MaxEvaluations
    /\ \E r \in {overview(id)} : Serve("/studies/:id/overview", id, r)

GetAggregation(fn, id) == \E r \in {aggregation(fn, id)} : Serve(fn, id, r)

GetAnimals(id) == \E r \in {animals(id)} : Serve("/studies/:id/animals", id, r)

GetAlerts(id) ==
    /\ evalCalls < MaxEvaluations
    /\ \E r \in {alerts(id)} : Serve("/studies/:id/alerts", id, r)

GetCrossStudy ==
    /\ evalCalls < MaxEvaluations
    /\ \E r \in {crossStudy} : Serve("/cross-study", "", r)

\* POST /refresh: triggerRefresh(), then the refresh info is sent
PostRefresh ==
    /\ refreshCount <= MaxRefresh
    /\ datasets' = disk
    /\ refreshCount' = refreshCount + 1
    /\ lastRefreshTime' \in {lastRefreshTime, lastRefreshTime + 1}
    /\ httpResp' =
           << [method |-> "POST", route |-> "/refresh", id |-> "", status |-> 200,
               body |-> [refreshCount |-> refreshCount', lastRefreshTime |-> lastRefreshTime',
                         message |-> "Data refreshed successfully"],
               prev |-> <<>>] >>
    /\ UNCHANGED <<THRESHOLDS, alertCounter, disk, evalCalls, evalResp, minted, aggResp,
                   riskBadge, statResp, configResp>>

\* one study with three groups, one quiet study, one without groups, and two studies
ApiScenarios ==
    { Scenario(DefaultThresholds, OneStudy(<<loudControl, lowGroup, highGroup>>)),
      Scenario(DefaultThresholds, OneStudy(<<quietGroup, quietGroup>>)),
      Scenario(DefaultThresholds, OneStudy(<<quietGroup, DamsOnly(<<>>), NoPups(lowGroup)>>)),
      Scenario(DefaultThresholds, OneStudy(<<>>)),
      Scenario(DefaultThresholds,
               ("STUDY-A" :> Dataset("STUDY-A", <<quietGroup, quietGroup>>))
                   @@ ("STUDY-B" :> Dataset("STUDY-B", <<quietGroup, lowGroup>>))) }

InitApi == InitWith(ApiScenarios)

NextApi ==
    \/ GetStudies
    \/ \E id \in RequestIds : GetStudy(id)
    \/ \E id \in RequestIds : GetOverview(id)
    \/ \E id \in RequestIds, fn \in Aggregations : GetAggregation(fn, id)
    \/ \E id \in RequestIds : GetAnimals(id)
    \/ \E id \in RequestIds : GetAlerts(id)
    \/ GetCrossStudy
    \/ PostRefresh

SpecApi == InitApi /\ [][NextApi]_vars

-----------------------------------------------------------------------------
(* The study list, asked for over every store of the engine scenarios.     *)

InitSummary == InitWith(EngineScenarios)

NextSummary ==
    \/ GetStudies
    \/ PostRefresh

SpecSummary == InitSummary /\ [][NextSummary]_vars

-----------------------------------------------------------------------------
(* The configuration surface: one value of THRESHOLDS is edited.           *)

ThresholdNames ==
    { <<category, name>> :
        category \in DOMAIN DefaultThresholds,
        name \in UNION {DOMAIN DefaultThresholds[c] : c \in DOMAIN DefaultThresholds} }

EditedValues == {R(0), R(1000)}

\* what evaluateAlerts returns for each study of the store, alertId aside
AlertsByStudy ==
    [studyId \in DOMAIN datasets |->
        SeqMap(LAMBDA a : [f \in DOMAIN a \ {"alertId"} |-> a[f]],
               evaluateAlerts(datasets[studyId], 0).alerts)]

\* the thresholds that differ from the shipped ones
Edited ==
    { t \in ThresholdNames :
        /\ t[2] \in DOMAIN DefaultThresholds[t[1]]
        /\ THRESHOLDS[t[1]][t[2]] # DefaultThresholds[t[1]][t[2]] }

SetThreshold(category, name, value) ==
    /\ name \in DOMAIN THRESHOLDS[category]
    /\ THRESHOLDS[category][name] # value
    /\ Cardinality(Edited \cup {<<category, name>>}) <= MaxEdits
    /\ THRESHOLDS' = [THRESHOLDS EXCEPT ![category][name] = value]
    /\ datasets' = datasets
    /\ configResp' =
           << [category |-> category, name |-> name,
               from |-> THRESHOLDS[category][name], to |-> value,
               changed |-> AlertsByStudy' # AlertsByStudy] >>
    /\ UNCHANGED <<refreshCount, lastRefreshTime, alertCounter, disk, evalCalls,
                   evalResp, minted, aggResp, riskBadge, statResp, httpResp>>

\* a store in which every rule of the engine fires for some group and stays
\* silent for another
ConfigScenarios ==
    { Scenario(DefaultThresholds,
               ("STUDY-A" :> Dataset("STUDY-A", <<loudControl, lowGroup, highGroup>>))
                   @@ ("STUDY-B" :> Dataset("STUDY-B", <<quietGroup, highGroup, lowGroup, quietGroup>>))) }

InitConfig == InitWith(ConfigScenarios)

NextConfig ==
    \E category \in DOMAIN THRESHOLDS :
        \E name \in DOMAIN THRESHOLDS[category], value \in EditedValues :
            SetThreshold(category, name, value)

SpecConfig == InitConfig /\ [][NextConfig]_vars

-----------------------------------------------------------------------------
(* Calls of the statistical helpers on lists of numbers.                   *)

StatValues == {R(-3), R(0), <<1, 2>>, R(7)}

StatLists == ListsUpTo(StatValues, 0, MaxLen)

\* the quantiles asked of a non-empty list lie in [0, 1]
UnitQuantiles == {R(0), <<1, 4>>, <<1, 2>>, <<3, 4>>, R(1)}

AnyQuantiles == UnitQuantiles \cup {R(-1), R(2)}

\* the arguments a behaviour calls the helpers with
StatInputs ==
    {<<values, q>> : values \in StatLists, q \in UnitQuantiles}
        \cup {<<<<>>, q>> : q \in AnyQuantiles}

StatCall(fn, out) ==
    /\ statResp' = << [statResp[1] EXCEPT !.fn = fn, !.out = out] >>
    /\ UNCHANGED <<THRESHOLDS, datasets, refreshCount, lastRefreshTime, alertCounter,
                   disk, evalCalls, evalResp, minted, aggResp, riskBadge, configResp,
                   httpResp>>

Mean == StatCall("mean", meanDM(statResp[1].values))

Sem ==
    StatCall("sem", [squared |-> semSquared(statResp[1].values),
                     rounded |-> roundSem(statResp[1].values)])

Median == StatCall("median", median(statResp[1].values))

Quantile == StatCall("quantile", quantile(statResp[1].values, statResp[1].q[1]))

ToBoxData == StatCall("toBoxData", toBoxData("Low", "G2", statResp[1].values))

InitStats ==
    /\ InitStore({Scenario(DefaultThresholds, OneStudy(<<quietGroup, quietGroup>>))})
    /\ \E in \in StatInputs :
           statResp = << [fn |-> "", values |-> in[1], q |-> <<in[2]>>, out |-> <<>>] >>

NextStats ==
    \/ Mean
    \/ Sem
    \/ Median
    \/ Quantile
    \/ ToBoxData

SpecStats == InitStats /\ [][NextStats]_vars

-----------------------------------------------------------------------------
(* Properties.                                                             *)

\* the severities occurring in a list of alerts
Severities(as) == {as[i].severity : i \in 1..Len(as)}

\* C1: deriveRiskBadge returns red if some alert of the list is red, otherwise
\* yellow if some alert is yellow, otherwise green; the result is a function of
\* the severities in the list alone.
C1_BadgeIsWorstSeverity ==
    riskBadge # <<>> =>
        riskBadge[1].badge =
            IF "red" \in Severities(riskBadge[1].alerts) THEN "red"
            ELSE IF "yellow" \in Severities(riskBadge[1].alerts) THEN "yellow"
            ELSE "green"

\* one red after two yellows of different categories gave red
C1_RedAmongYellows ==
    /\ riskBadge # <<>>
    /\ Len(riskBadge[1].alerts) = 3
    /\ riskBadge[1].alerts[1].severity = "yellow"
    /\ riskBadge[1].alerts[2].severity = "yellow"
    /\ riskBadge[1].alerts[1].category # riskBadge[1].alerts[2].category
    /\ riskBadge[1].alerts[3].severity = "red"
    /\ riskBadge[1].badge = "red"

\* the ids of the groups of a dataset other than groups[0]
TreatedGroupIds(dataset) == {dataset.groups[g].groupId : g \in 2..Len(dataset.groups)}

\* C2: every alert evaluateAlerts returns carries the dataset's studyId and the
\* groupId of a group other than groups[0]; the control group gets no alert and
\* no alert lacks a groupId.
C2_AlertsNameTreatedGroups ==
    evalResp # <<>> =>
        \A i \in 1..Len(evalResp[1].alerts) :
            /\ evalResp[1].alerts[i].studyId = datasets[evalResp[1].studyId].study.studyId
            /\ evalResp[1].alerts[i].groupId \in TreatedGroupIds(datasets[evalResp[1].studyId])
            /\ evalResp[1].alerts[i].groupId # datasets[evalResp[1].studyId].groups[1].groupId

\* a call returned alerts for a study whose control group has a dam that lost
\* weight beyond the threshold and died
C2_LoudControlStaysSilent ==
    /\ evalResp # <<>>
    /\ Len(evalResp[1].alerts) > 0
    /\ \E i \in 1..Len(datasets[evalResp[1].studyId].animals) :
          /\ datasets[evalResp[1].studyId].animals[i].groupId
                 = datasets[evalResp[1].studyId].groups[1].groupId
          /\ datasets[evalResp[1].studyId].animals[i].maternalDeathFlag
          /\ datasets[evalResp[1].studyId].animals[i].bodyWeights = bwM12

\* C3: over all evaluateAlerts calls of the process, on any datasets and with
\* refreshes in between, no two minted alertIds are equal and their numeric
\* parts strictly increase in emission order.
C3_IdsUniqueAndIncreasing ==
    /\ Cardinality({minted[i] : i \in 1..Len(minted)}) = Len(minted)
    /\ \A i \in 1..(Len(minted) - 1) : AlertNumber(minted[i]) < AlertNumber(minted[i + 1])

\* alerts were minted before a refresh and again after it, the last call being
\* on another study than the call before it
C3_MintedAcrossStudiesAndRefresh ==
    /\ refreshCount > 1
    /\ evalCalls >= 2
    /\ evalResp # <<>>
    /\ evalResp[1].prev = <<>>
    /\ evalResp[1].start > 0
    /\ Len(evalResp[1].alerts) > 0

\* C4: the counter is never reset: after calls that emitted n alerts in total, a
\* call emitting k alerts numbers them n+1 .. n+k in list order, so a repeated
\* evaluation of an unchanged dataset shares no alertId with the one before.
C4_NumbersContinue ==
    /\ alertCounter = Len(minted)
    /\ evalResp # <<>> =>
          /\ \A i \in 1..Len(evalResp[1].alerts) :
                AlertNumber(evalResp[1].alerts[i].alertId)
                    = (Len(minted) - Len(evalResp[1].alerts)) + i
          /\ evalResp[1].prev # <<>> =>
                \A i \in 1..Len(evalResp[1].alerts) :
                    \A j \in 1..Len(evalResp[1].prev[1].alerts) :
                        evalResp[1].alerts[i].alertId # evalResp[1].prev[1].alerts[j].alertId

\* a study was evaluated twice in a row, both calls returning alerts
C4_EvaluatedAgain ==
    /\ evalResp # <<>>
    /\ evalResp[1].prev # <<>>
    /\ Len(evalResp[1].prev[1].alerts) > 1
    /\ Len(evalResp[1].alerts) > 1
    /\ evalResp[1].start > 0

\* an alert without its id
Unnumbered(a) ==
    [studyId |-> a.studyId, groupId |-> a.groupId, category |-> a.category,
     severity |-> a.severity, message |-> a.message, endpoint |-> a.endpoint]

\* C5: two evaluateAlerts calls on the same dataset and thresholds, whatever
\* the counter at the start of each, return lists of the same length that agree
\* position by position on every field but alertId, and give the same badge.
C5_SameAlertsApartFromIds ==
    (evalResp # <<>> /\ evalResp[1].prev # <<>>) =>
        /\ Len(evalResp[1].alerts) = Len(evalResp[1].prev[1].alerts)
        /\ \A i \in 1..Len(evalResp[1].alerts) :
              Unnumbered(evalResp[1].alerts[i]) = Unnumbered(evalResp[1].prev[1].alerts[i])
        /\ deriveRiskBadge(evalResp[1].alerts) = deriveRiskBadge(evalResp[1].prev[1].alerts)

\* the same study was evaluated from two different counter values and gave a
\* list holding a red and a yellow alert
C5_TwoStartingCounters ==
    /\ evalResp # <<>>
    /\ evalResp[1].prev # <<>>
    /\ evalResp[1].prev[1].start # evalResp[1].start
    /\ {"red", "yellow"} \subseteq Severities(evalResp[1].alerts)

RuleAlerts(g, template) ==
    SelectSeq(evalResp[1].alerts,
              LAMBDA a : a.groupId = g.groupId /\ a.message.template = template)

\* the dataset the last evaluateAlerts call ran on
Evaluated1 == datasets[evalResp[1].studyId]

\* percent decrease of the mean food consumption of group g versus the control
FoodDecrease(g) ==
    PercentDecrease(mean(AllConsumption(GroupAnimals(Evaluated1, g))),
                    mean(AllConsumption(GroupAnimals(Evaluated1, Evaluated1.groups[1]))))

\* the severities the food-consumption rule is to emit for a decrease d
FoodExpected(d, T) ==
    IF RatGT(d, T) THEN <<"red">>
    ELSE IF RatGT(d, Half(T)) THEN <<"yellow">> ELSE <<>>

\* C8: for a non-control group where group and control both have food records,
\* with d the percent decrease versus control and T the configured threshold:
\* exactly one red maternal alert when d > T, exactly one yellow when
\* T/2 < d <= T, none otherwise; never two food-consumption alerts for a group.
C8_FoodConsumptionRule ==
    evalResp # <<>> =>
        \A g \in 2..Len(Evaluated1.groups) :
            (/\ Len(AllConsumption(GroupAnimals(Evaluated1, Evaluated1.groups[g]))) > 0
             /\ Len(AllConsumption(GroupAnimals(Evaluated1, Evaluated1.groups[1]))) > 0)
            => /\ SeqMap(LAMBDA a : a.severity,
                         RuleAlerts(Evaluated1.groups[g],
                                    "Food consumption decreased %s% vs control in "))
                    = FoodExpected(FoodDecrease(Evaluated1.groups[g]),
                                   THRESHOLDS.maternal.foodConsumptionDecreasePercent)
               /\ \A a \in {evalResp[1].alerts[i] : i \in 1..Len(evalResp[1].alerts)} :
                     a.message.template = "Food consumption decreased %s% vs control in "
                         => a.category = "maternal"

\* d = 25 with T = 20: the call returned one alert, red, "decreased 25%"
C8_TwentyFiveOverTwenty ==
    /\ evalResp # <<>>
    /\ THRESHOLDS.maternal.foodConsumptionDecreasePercent = R(20)
    /\ Len(Evaluated1.groups) = 2
    /\ FoodDecrease(Evaluated1.groups[2]) = R(25)
    /\ Len(evalResp[1].alerts) = 1
    /\ evalResp[1].alerts[1].severity = "red"
    /\ evalResp[1].alerts[1].category = "maternal"
    /\ evalResp[1].alerts[1].message =
           Msg("Food consumption decreased %s% vs control in ", ToFixed(R(25), 0),
               Evaluated1.groups[2])

\* C9: a group with zero death-flagged animals produces no maternal-death
\* alert, for every value of the configured deathCount minimum.
C9_NoDeathsNoDeathAlert ==
    evalResp # <<>> =>
        \A g \in 2..Len(Evaluated1.groups) :
            DeathCount(GroupAnimals(Evaluated1, Evaluated1.groups[g])) = 0
                => RuleAlerts(Evaluated1.groups[g], "%s maternal death(s) in ") = <<>>

\* with the minimum configured as 0, a treated group of two dams, neither
\* death-flagged, got a yellow "0 maternal death(s)" alert
C9_ZeroDeathsAlerted ==
    /\ evalResp # <<>>
    /\ THRESHOLDS.maternal.deathCount = R(0)
    /\ Len(Evaluated1.groups) = 2
    /\ Len(GroupAnimals(Evaluated1, Evaluated1.groups[2])) = 2
    /\ DeathCount(GroupAnimals(Evaluated1, Evaluated1.groups[2])) = 0
    /\ SeqMap(LAMBDA a : <<a.severity, a.message.value>>,
              RuleAlerts(Evaluated1.groups[2], "%s maternal death(s) in "))
           = << <<"yellow", ToFixed(R(0), 0)>> >>

\* some record of some animal of group g has changeFromBaseline below -T
SomeLossBeyond(g, T) ==
    \E i \in 1..Len(Evaluated1.animals) :
        /\ Evaluated1.animals[i].groupId = g.groupId
        /\ \E k \in 1..Len(Evaluated1.animals[i].bodyWeights) :
              Evaluated1.animals[i].bodyWeights[k].changeFromBaseline * T[2] < -T[1]

\* C10: for each non-control group, one red maternal "body weight loss" alert
\* is emitted if and only if some animal of the group has a body-weight record
\* with changeFromBaseline below -bodyWeightLossPercent; never more than one,
\* and animals without body-weight records never trigger it.
C10_IndividualLossRule ==
    evalResp # <<>> =>
        \A g \in 2..Len(Evaluated1.groups) :
            SeqMap(LAMBDA a : <<a.severity, a.category>>,
                   RuleAlerts(Evaluated1.groups[g], "Maternal body weight loss >%s% in "))
                = IF SomeLossBeyond(Evaluated1.groups[g],
                                    THRESHOLDS.maternal.bodyWeightLossPercent)
                  THEN << <<"red", "maternal">> >>
                  ELSE <<>>

\* a treated group of two dams, both beyond the threshold, got its one alert
C10_TwoQualifyOneAlert ==
    /\ evalResp # <<>>
    /\ Len(Evaluated1.groups) = 2
    /\ Len(GroupAnimals(Evaluated1, Evaluated1.groups[2])) = 2
    /\ \A i \in 1..Len(Evaluated1.animals) :
          Evaluated1.animals[i].groupId = Evaluated1.groups[2].groupId
              => Evaluated1.animals[i].bodyWeights \in {bwM12, bwDip}
    /\ Len(RuleAlerts(Evaluated1.groups[2], "Maternal body weight loss >%s% in ")) = 1

\* the animals of group g that have at least one body-weight record
Weighed(g) ==
    SelectSeq(Evaluated1.animals, LAMBDA a : a.groupId = g.groupId /\ a.bodyWeights # <<>>)

\* the sums of the first-recorded and of the last-recorded weights of the animals `as`
FirstWeightSum(as) == SumFrom([i \in 1..Len(as) |-> as[i].bodyWeights[1].weight], 1)
LastWeightSum(as) ==
    SumFrom([i \in 1..Len(as) |-> as[i].bodyWeights[Len(as[i].bodyWeights)].weight], 1)

\* percent change from the mean first-recorded to the mean last-recorded weight
\* of the weighed animals of group g
MeanWeightChange(g) ==
    RNorm((LastWeightSum(Weighed(g)) - FirstWeightSum(Weighed(g))) * 100,
          FirstWeightSum(Weighed(g)))

\* the severities the group-mean body-weight rule is to emit for a change p
WeightExpected(p, T) ==
    IF RatLT(p, RatNeg(T)) THEN << <<"red", "maternal">> >>
    ELSE IF RatLT(p, RatNeg(Half(T))) THEN << <<"yellow", "maternal">> >> ELSE <<>>

\* C11: for each non-control group, with p the percent change from the mean of
\* the animals' first-recorded weights to the mean of their last-recorded
\* weights and T = bodyWeightLossPercent, the group-mean rule emits exactly one
\* alert when p < -T/2 (red when p < -T, yellow when -T <= p < -T/2) and none
\* otherwise; none when no animal of the group has a body-weight record.
C11_GroupMeanWeightRule ==
    evalResp # <<>> =>
        \A g \in 2..Len(Evaluated1.groups) :
            SeqMap(LAMBDA a : <<a.severity, a.category>>,
                   RuleAlerts(Evaluated1.groups[g], "Mean maternal body weight change %s% in "))
                = IF Weighed(Evaluated1.groups[g]) = <<>> THEN <<>>
                  ELSE WeightExpected(MeanWeightChange(Evaluated1.groups[g]),
                                      THRESHOLDS.maternal.bodyWeightLossPercent)

\* T = 10 and a treated group of one dam that went from 100 to 90: p = -10 is
\* not below -T, the group got one yellow alert "change -10.0%"
C11_ExactlyAtThresholdYellow ==
    /\ evalResp # <<>>
    /\ THRESHOLDS.maternal.bodyWeightLossPercent = R(10)
    /\ Len(Evaluated1.groups) = 2
    /\ SeqMap(LAMBDA a : a.bodyWeights, GroupAnimals(Evaluated1, Evaluated1.groups[2]))
           = <<bwM10>>
    /\ SeqMap(LAMBDA a : <<a.severity, a.message.value>>,
              RuleAlerts(Evaluated1.groups[2], "Mean maternal body weight change %s% in "))
           = << <<"yellow", ToFixed(R(-10), 1)>> >>

\* the control group of the dataset last evaluated
Control1 == Evaluated1.groups[1]

\* the sum of the integers f(x) over the records x of a list
Total(records, f(_)) == SumFrom([i \in 1..Len(records) |-> f(records[i])], 1)

\* the denominators of the four ratio rules for a treated group g: the control's
\* food consumption, the control's litter fetal weights, the pups born in g,
\* the last weights of the control's live pups
ControlFoodTotal == Total(AllConsumption(GroupAnimals(Evaluated1, Control1)), LAMBDA c : c)
ControlFetalWeightTotal == Total(GroupLitters(Evaluated1, Control1), LAMBDA l : l.meanFetalWeight)
PupsBorn(g) ==
    Total(GroupLitters(Evaluated1, g),
          LAMBDA l : IF l.postnatalPups = <<>> THEN 0 ELSE l.postnatalPups[1])
ControlPupWeightTotal ==
    Total(SelectSeq(Evaluated1.pups,
                    LAMBDA p : /\ p.groupId = Control1.groupId
                               /\ p.viabilityStatus = "live"
                               /\ p.bodyWeights # <<>>),
          LAMBDA p : p.bodyWeights[Len(p.bodyWeights)].weight)

\* C12: when the denominator of a rule's ratio is zero (control mean food
\* consumption 0; control mean fetal weight 0 or no control litters; no pups
\* born in the group; control mean last pup weight 0 or no live control pups),
\* that rule emits no alert of any severity for the group.
C12_ZeroDenominatorNoAlert ==
    evalResp # <<>> =>
        \A g \in 2..Len(Evaluated1.groups) :
            /\ ControlFoodTotal = 0 =>
                   RuleAlerts(Evaluated1.groups[g],
                              "Food consumption decreased %s% vs control in ") = <<>>
            /\ ControlFetalWeightTotal = 0 =>
                   RuleAlerts(Evaluated1.groups[g],
                              "Mean fetal weight decreased %s% vs control in ") = <<>>
            /\ PupsBorn(Evaluated1.groups[g]) = 0 =>
                   RuleAlerts(Evaluated1.groups[g], "Perinatal pup mortality %s% in ") = <<>>
            /\ ControlPupWeightTotal = 0 =>
                   RuleAlerts(Evaluated1.groups[g],
                              "Pup weight gain decreased %s% vs control in ") = <<>>

\* all four denominators were zero in a study with pups, control food records
\* and control litters, and the call returned the alert of the death rule
C12_AllFourZeroOthersReported ==
    /\ evalResp # <<>>
    /\ Len(Evaluated1.groups) = 2
    /\ Len(Evaluated1.pups) = 2
    /\ AllConsumption(GroupAnimals(Evaluated1, Control1)) # <<>>
    /\ GroupLitters(Evaluated1, Control1) # <<>>
    /\ AllConsumption(GroupAnimals(Evaluated1, Evaluated1.groups[2])) # <<>>
    /\ ControlFoodTotal = 0
    /\ ControlFetalWeightTotal = 0
    /\ PupsBorn(Evaluated1.groups[2]) = 0
    /\ ControlPupWeightTotal = 0
    /\ SeqMap(LAMBDA a : a.message.template, evalResp[1].alerts)
           = <<"%s maternal death(s) in ">>

\* C13: when dataset.pups is empty, evaluateAlerts returns no alert of category
\* postnatal, whatever pup counts the litters carry, and computePostnatalData
\* returns four empty lists.
C13_NoPupsNoPostnatal ==
    /\ (evalResp # <<>> /\ Evaluated1.pups = <<>>) =>
           \A i \in 1..Len(evalResp[1].alerts) : evalResp[1].alerts[i].category # "postnatal"
    /\ (/\ aggResp # <<>>
        /\ aggResp[1].fn = "computePostnatalData"
        /\ datasets[aggResp[1].studyId].pups = <<>>) =>
           aggResp[1].out = [pupWeightByGroup |-> <<>>, pupWeightByGroupAndSex |-> <<>>,
                             milestoneIncidence |-> <<>>, neurobehaviorByGroup |-> <<>>]

\* a study without pups whose treated group lost 4 of 10 pups born by litter
\* counts was evaluated, with alerts returned, and its postnatal bundle computed
C13_LitterCountsWithoutPups ==
    /\ evalResp # <<>>
    /\ aggResp # <<>>
    /\ aggResp[1].fn = "computePostnatalData"
    /\ aggResp[1].studyId = evalResp[1].studyId
    /\ Evaluated1.pups = <<>>
    /\ Len(Evaluated1.groups) = 2
    /\ PupsBorn(Evaluated1.groups[2]) = 10
    /\ Total(GroupLitters(Evaluated1, Evaluated1.groups[2]),
             LAMBDA l : IF l.pupsSurvivingPND4 = <<>> THEN 0 ELSE l.pupsSurvivingPND4[1]) = 6
    /\ Len(evalResp[1].alerts) > 0

\* the dataset the last compute* call ran on
Computed1 == datasets[aggResp[1].studyId]

\* the entities of `entities` holding a record with `key`, and for each the
\* value of its first such record; recs, keyOf, valOf are field names
HavingAt(entities, recs, keyOf, key) ==
    SelectSeq(entities, LAMBDA e : \E k \in 1..Len(e[recs]) : e[recs][k][keyOf] = key)
FirstAt(e, recs, keyOf, valOf, key) ==
    e[recs][CHOOSE k \in 1..Len(e[recs]) :
                /\ e[recs][k][keyOf] = key
                /\ \A j \in 1..(k - 1) : e[recs][j][keyOf] # key][valOf]

\* the keys on which some entity has a record
KeysOf(entities, recs, keyOf) ==
    UNION { {entities[i][recs][k][keyOf] : k \in 1..Len(entities[i][recs])} :
            i \in 1..Len(entities) }

\* the mean, in hundredths, over the entities that have a record at key
ObservedMean(entities, recs, keyOf, valOf, key) ==
    round(RNorm(SumFrom([i \in 1..Len(HavingAt(entities, recs, keyOf, key)) |->
                            FirstAt(HavingAt(entities, recs, keyOf, key)[i],
                                    recs, keyOf, valOf, key)], 1),
                Len(HavingAt(entities, recs, keyOf, key))))

\* series `data` is the time series of `entities`: its keys are the keys on
\* which some entity has a record, each once, ascending, and each mean is over
\* the entities observed at the key
IsSeriesOf(data, entities, recs, keyOf, valOf) ==
    /\ {data[i].day : i \in 1..Len(data)} = KeysOf(entities, recs, keyOf)
    /\ \A i \in 1..(Len(data) - 1) : data[i].day < data[i + 1].day
    /\ \A i \in 1..Len(data) :
          /\ HavingAt(entities, recs, keyOf, data[i].day) # <<>>
          /\ data[i].mean = ObservedMean(entities, recs, keyOf, valOf, data[i].day)

\* output field, record list, key field and value field of the maternal series
MaternalSeriesKinds ==
    { <<"bodyWeight", "bodyWeights", "day", "weight">>,
      <<"bodyWeightChange", "bodyWeights", "day", "changeFromBaseline">>,
      <<"foodConsumption", "foodConsumption", "dayStart", "consumption">> }

\* C14: in computeMaternalData, for every group the keys of the body-weight,
\* body-weight-change and food-consumption series are exactly the days on which
\* some animal of the group has a record, each once, strictly ascending, and
\* the mean at a key is over only the animals with a record at that key.
C14_MaternalSeriesContract ==
    (aggResp # <<>> /\ aggResp[1].fn = "computeMaternalData") =>
        \A kind \in MaternalSeriesKinds :
            /\ Len(aggResp[1].out[kind[1]]) = Len(Computed1.groups)
            /\ \A g \in 1..Len(Computed1.groups) :
                  /\ aggResp[1].out[kind[1]][g].groupId = Computed1.groups[g].groupId
                  /\ IsSeriesOf(aggResp[1].out[kind[1]][g].data,
                                GroupAnimals(Computed1, Computed1.groups[g]),
                                kind[2], kind[3], kind[4])

\* two dams weighed on days {0, 6, 12} and {6, 12, 18}: the series has the
\* four days, and the mean at day 0 is the one weight recorded on day 0
C14_UnionOfDays ==
    /\ aggResp # <<>>
    /\ aggResp[1].fn = "computeMaternalData"
    /\ Len(Computed1.groups) = 2
    /\ SeqMap(LAMBDA a : a.bodyWeights, GroupAnimals(Computed1, Computed1.groups[2]))
           = <<bwEarly, bwLate>>
    /\ SeqMap(LAMBDA pt : pt.day, aggResp[1].out.bodyWeight[2].data) = <<0, 6, 12, 18>>
    /\ aggResp[1].out.bodyWeight[2].data[1].mean = 100 * 100
    /\ aggResp[1].out.bodyWeight[2].data[2].mean = 15250

\* the live pups of group g, of one sex or of both
LivePupsOf(g, sexes) ==
    SelectSeq(Computed1.pups,
              LAMBDA q : q.groupId = g.groupId /\ q.viabilityStatus = "live" /\ q.sex \in sexes)

\* C15: in computePostnatalData, for every group, combined and per sex, the
\* keys of the pup-weight series are exactly the days on which some pup
\* aggregated for that group has a weight record, with the mean over the pups
\* weighed that day.
C15_PupSeriesContract ==
    (aggResp # <<>> /\ aggResp[1].fn = "computePostnatalData" /\ Computed1.pups # <<>>) =>
        \A g \in 1..Len(Computed1.groups) :
            /\ IsSeriesOf(aggResp[1].out.pupWeightByGroup[g].data,
                          LivePupsOf(Computed1.groups[g], {"male", "female"}),
                          "bodyWeights", "day", "weight")
            /\ \A k \in 1..2 :
                  IsSeriesOf(aggResp[1].out.pupWeightByGroupAndSex[k].series[g].data,
                             LivePupsOf(Computed1.groups[g],
                                        {aggResp[1].out.pupWeightByGroupAndSex[k].sex}),
                             "bodyWeights", "day", "weight")

\* the control's pups were weighed on days 1 and 21 only and the treated pup
\* on days 1 and 7: both series carry the days 1, 7, 21, the control's with a
\* mean of 0 on day 7 and the treated group's with a mean of 0 on day 21
C15_PointWithoutObservation ==
    /\ aggResp # <<>>
    /\ aggResp[1].fn = "computePostnatalData"
    /\ Len(Computed1.groups) = 2
    /\ KeysOf(LivePupsOf(Computed1.groups[1], {"male", "female"}), "bodyWeights", "day")
           = {1, 21}
    /\ KeysOf(LivePupsOf(Computed1.groups[2], {"male", "female"}), "bodyWeights", "day")
           = {1, 7}
    /\ SeqMap(LAMBDA pt : <<pt.day, pt.mean>>, aggResp[1].out.pupWeightByGroup[1].data)
           = << <<1, 600>>, <<7, 0>>, <<21, 4900>> >>
    /\ SeqMap(LAMBDA pt : <<pt.day, pt.mean>>, aggResp[1].out.pupWeightByGroup[2].data)
           = << <<1, 600>>, <<7, 1500>>, <<21, 0>> >>

\* the terms of a list of rows are the categories, each once, in ascending
\* order, and every row has one entry per group in dataset.groups order
IsIncidenceTable(terms, rows, categories) ==
    /\ {terms[i] : i \in 1..Len(terms)} = categories
    /\ Len(terms) = Cardinality(categories)
    /\ \A i \in 1..(Len(terms) - 1) : CodeLess(CodeUnits(terms[i]), CodeUnits(terms[i + 1]))
    /\ \A i \in 1..Len(rows) :
          SeqMap(LAMBDA e : e.groupId, rows[i].groups)
              = SeqMap(LAMBDA g : g.groupId, Computed1.groups)

\* the category values observed in the dataset last aggregated
ClinicalTerms ==
    UNION { {Computed1.animals[i].clinicalObservations[k].findingTerm :
                 k \in 1..Len(Computed1.animals[i].clinicalObservations)} :
            i \in 1..Len(Computed1.animals) }
FetalTerms ==
    UNION { {Computed1.fetuses[i].findings[k].findingTerm :
                 k \in 1..Len(Computed1.fetuses[i].findings)} :
            i \in 1..Len(Computed1.fetuses) }
MilestonesObserved ==
    UNION { {Computed1.pups[i].milestones[k].milestone :
                 k \in 1..Len(Computed1.pups[i].milestones)} :
            i \in 1..Len(Computed1.pups) }

\* C16: the clinical-signs, fetal-findings and milestone incidence tables have
\* exactly one row per distinct category value observed in the dataset, in
\* ascending alphabetical order of category, each row with one entry per group
\* in dataset.groups order.
C16_IncidenceTablesSorted ==
    aggResp # <<>> =>
        /\ aggResp[1].fn = "computeMaternalData" =>
               IsIncidenceTable(SeqMap(LAMBDA r : r.findingTerm,
                                       aggResp[1].out.clinicalSignsIncidence),
                                aggResp[1].out.clinicalSignsIncidence, ClinicalTerms)
        /\ aggResp[1].fn = "computeFetalFindingsData" =>
               IsIncidenceTable(SeqMap(LAMBDA r : r.findingTerm, aggResp[1].out.incidenceTable),
                                aggResp[1].out.incidenceTable, FetalTerms)
        /\ (aggResp[1].fn = "computePostnatalData" /\ Computed1.pups # <<>>) =>
               IsIncidenceTable(SeqMap(LAMBDA r : r.milestone,
                                       aggResp[1].out.milestoneIncidence),
                                aggResp[1].out.milestoneIncidence, MilestonesObserved)

\* the fetal-findings table of a study whose first fetus has a cleft palate
\* and a later one a bent rib lists "cleft palate" before "Bent rib"
C16_FetalRowsInFirstSeenOrder ==
    /\ aggResp # <<>>
    /\ aggResp[1].fn = "computeFetalFindingsData"
    /\ Len(Computed1.groups) = 2
    /\ SeqMap(LAMBDA r : r.findingTerm, aggResp[1].out.incidenceTable)
           = <<"cleft palate", "Bent rib">>

\* every finding of the dataset last aggregated, scanning dataset.fetuses in
\* order and each fetus's findings in order
ScannedFindings == Flatten(SeqMap(LAMBDA f : f.findings, Computed1.fetuses))

\* the first scanned finding with the term
FirstFinding(term) ==
    ScannedFindings[CHOOSE k \in 1..Len(ScannedFindings) :
                        /\ ScannedFindings[k].findingTerm = term
                        /\ \A j \in 1..(k - 1) : ScannedFindings[j].findingTerm # term]

\* C17: in computeFetalFindingsData the findingCode, examType and
\* classification of a row are those of the first finding with the row's term
\* in scan order, and categories is the ascending list of the distinct exam
\* types of the rows.
C17_FirstSeenMetadataWins ==
    (aggResp # <<>> /\ aggResp[1].fn = "computeFetalFindingsData") =>
        /\ \A i \in 1..Len(aggResp[1].out.incidenceTable) :
              /\ aggResp[1].out.incidenceTable[i].findingTerm \in FetalTerms
              /\ aggResp[1].out.incidenceTable[i].findingCode
                     = FirstFinding(aggResp[1].out.incidenceTable[i].findingTerm).findingCode
              /\ aggResp[1].out.incidenceTable[i].examType
                     = FirstFinding(aggResp[1].out.incidenceTable[i].findingTerm).examType
              /\ aggResp[1].out.incidenceTable[i].classification
                     = FirstFinding(aggResp[1].out.incidenceTable[i].findingTerm).classification
        /\ {aggResp[1].out.categories[i] : i \in 1..Len(aggResp[1].out.categories)}
               = {aggResp[1].out.incidenceTable[i].examType :
                      i \in 1..Len(aggResp[1].out.incidenceTable)}
        /\ \A i \in 1..(Len(aggResp[1].out.categories) - 1) :
              CodeLess(CodeUnits(aggResp[1].out.categories[i]),
                       CodeUnits(aggResp[1].out.categories[i + 1]))

\* "Bent rib" was first met as a visceral malformation F09 and later as a
\* skeletal variation F02: the row keeps F09 and categories has no "skeletal"
C17_InconsistentTermKeepsFirst ==
    /\ aggResp # <<>>
    /\ aggResp[1].fn = "computeFetalFindingsData"
    /\ \E j, k \in 1..Len(ScannedFindings) :
          /\ j < k
          /\ ScannedFindings[j] = bentRibAsMalformation
          /\ ScannedFindings[k] = bentRib
          /\ \A i \in 1..(j - 1) : ScannedFindings[i].findingTerm # "Bent rib"
    /\ \E i \in 1..Len(aggResp[1].out.incidenceTable) :
          /\ aggResp[1].out.incidenceTable[i].findingTerm = "Bent rib"
          /\ aggResp[1].out.incidenceTable[i].findingCode = "F09"
          /\ aggResp[1].out.incidenceTable[i].examType = "visceral"
          /\ aggResp[1].out.incidenceTable[i].classification = "malformation"
    /\ aggResp[1].out.categories = <<"external", "visceral">>

\* a percentage in hundredths between 0 and 100 that is 0 when the total is 0
IsPercentOf(pct, total) == pct \in 0..(100 * 100) /\ (total = 0 => pct = 0)

\* C18: in every incidence row and group the affected count is at most the
\* total count (clinical signs: incidence <= total animals; fetal findings:
\* affectedLitters <= totalLitters, affectedFetuses <= totalFetuses), every
\* reported percentage lies between 0 and 100 and is 0 when its total is 0.
C18_AffectedWithinTotal ==
    aggResp # <<>> =>
        /\ aggResp[1].fn = "computeMaternalData" =>
               \A i \in 1..Len(aggResp[1].out.clinicalSignsIncidence) :
                   \A g \in 1..Len(aggResp[1].out.clinicalSignsIncidence[i].groups) :
                       /\ aggResp[1].out.clinicalSignsIncidence[i].groups[g].incidence
                              \in 0..aggResp[1].out.clinicalSignsIncidence[i].groups[g].total
                       /\ aggResp[1].out.clinicalSignsIncidence[i].groups[g].total
                              = Len(GroupAnimals(Computed1, Computed1.groups[g]))
        /\ aggResp[1].fn = "computeFetalFindingsData" =>
               \A i \in 1..Len(aggResp[1].out.incidenceTable) :
                   \A g \in 1..Len(aggResp[1].out.incidenceTable[i].groups) :
                       /\ aggResp[1].out.incidenceTable[i].groups[g].affectedLitters
                              \in 0..aggResp[1].out.incidenceTable[i].groups[g].totalLitters
                       /\ aggResp[1].out.incidenceTable[i].groups[g].affectedFetuses
                              \in 0..aggResp[1].out.incidenceTable[i].groups[g].totalFetuses
                       /\ aggResp[1].out.incidenceTable[i].groups[g].totalLitters
                              = Len(GroupLitters(Computed1, Computed1.groups[g]))
                       /\ IsPercentOf(aggResp[1].out.incidenceTable[i].groups[g].percentLitters,
                                      aggResp[1].out.incidenceTable[i].groups[g].totalLitters)
                       /\ IsPercentOf(aggResp[1].out.incidenceTable[i].groups[g].percentFetuses,
                                      aggResp[1].out.incidenceTable[i].groups[g].totalFetuses)
        /\ (aggResp[1].fn = "computePostnatalData" /\ Computed1.pups # <<>>) =>
               \A i \in 1..Len(aggResp[1].out.milestoneIncidence) :
                   \A g \in 1..Len(aggResp[1].out.milestoneIncidence[i].groups) :
                       aggResp[1].out.milestoneIncidence[i].groups[g].percentDelayed
                           \in 0..(100 * 100)

\* a fetal-findings row over three groups: none affected of one litter, a
\* group without litters or fetuses (0%), and 1 of 2 litters, 1 of 3 fetuses
C18_EmptyAndHalfAffected ==
    /\ aggResp # <<>>
    /\ aggResp[1].fn = "computeFetalFindingsData"
    /\ Len(aggResp[1].out.incidenceTable) = 1
    /\ SeqMap(LAMBDA e : <<e.affectedLitters, e.totalLitters, e.percentLitters,
                           e.affectedFetuses, e.totalFetuses, e.percentFetuses>>,
              aggResp[1].out.incidenceTable[1].groups)
           = << <<0, 1, 0, 0, 2, 0>>, <<0, 0, 0, 0, 0, 0>>, <<1, 2, 5000, 1, 3, 3333>> >>

\* (whole - part) / whole * 100 rounded to hundredths, for whole > 0
RoundedLoss(whole, part) ==
    RNorm((2 * (whole - part) * 100 * 100 + whole) \div (2 * whole), 100)

\* the box data of a group holds the loss of each of its litters, in order: 0
\* for a litter whose `whole` count is 0, a finite number for every litter
IsLossBox(box, litters, whole, part) ==
    /\ Len(box.values) = Len(litters)
    /\ \A i \in 1..Len(litters) :
          /\ IsFinite(box.values[i])
          /\ litters[i][whole] = 0 => box.values[i] = R(0)
          /\ litters[i][whole] > 0 =>
                 box.values[i] = RoundedLoss(litters[i][whole], litters[i][part])
    /\ \A f \in {"mean", "median", "min", "max", "q1", "q3"} : box[f] \in Int
    /\ (\A i \in 1..Len(litters) : litters[i][whole] = 0) =>
           \A f \in {"mean", "median", "min", "max", "q1", "q3"} : box[f] = 0

\* C19: in computeLitterData a litter with corporaLutea = 0 contributes exactly
\* 0 to the pre-implantation-loss values and a litter with implantations = 0
\* exactly 0 to the post-implantation-loss values; every value and every
\* figure of the box-plot summary is a defined number.
C19_ZeroCountsGiveZeroLoss ==
    (aggResp # <<>> /\ aggResp[1].fn = "computeLitterData") =>
        \A g \in 1..Len(Computed1.groups) :
            /\ IsLossBox(aggResp[1].out.preImplantationLoss[g],
                         GroupLitters(Computed1, Computed1.groups[g]),
                         "corporaLutea", "implantations")
            /\ IsLossBox(aggResp[1].out.postImplantationLoss[g],
                         GroupLitters(Computed1, Computed1.groups[g]),
                         "implantations", "liveFetuses")

\* a group of two litters, one with 0 corpora lutea and 5 implantations and
\* one with 12 corpora lutea and 0 implantations: pre-implantation losses 0
\* and 100, post-implantation losses 0 and 0
C19_NoCorporaLuteaNoImplantations ==
    /\ aggResp # <<>>
    /\ aggResp[1].fn = "computeLitterData"
    /\ Len(Computed1.groups) = 2
    /\ SeqMap(LAMBDA l : <<l.corporaLutea, l.implantations, l.liveFetuses>>,
              GroupLitters(Computed1, Computed1.groups[2]))
           = << <<0, 5, 5>>, <<12, 0, 0>> >>
    /\ aggResp[1].out.preImplantationLoss[2].values = <<R(0), R(100)>>
    /\ aggResp[1].out.preImplantationLoss[2].mean = 50 * 100
    /\ aggResp[1].out.postImplantationLoss[2].values = <<R(0), R(0)>>
    /\ aggResp[1].out.postImplantationLoss[2].max = 0

\* the achievement days of the live pups of group g for a milestone
DaysOf(g, milestone) == AchievedDays(LivePupsOf(g, {"male", "female"}), milestone)

\* d > mean(cs) + SD(cs) for control days cs, in integers: with n = |cs|,
\* S their sum and Q the sum of their squares, SD^2 = (nQ - S^2) / (n (n - 1))
\* for n >= 2, and SD = 1 (about a mean of S, or of 0) for n <= 1
BeyondControl(d, cs) ==
    IF Len(cs) >= 2
    THEN /\ d * Len(cs) > SumFrom(cs, 1)
         /\ (d * Len(cs) - SumFrom(cs, 1)) * (d * Len(cs) - SumFrom(cs, 1)) * (Len(cs) - 1)
                > Len(cs) * (Len(cs) * SumFrom([i \in 1..Len(cs) |-> cs[i] * cs[i]], 1)
                             - SumFrom(cs, 1) * SumFrom(cs, 1))
    ELSE d > SumFrom(cs, 1) + 1

\* the percentage, in hundredths, of the days ds that are beyond the control
PercentBeyond(ds, cs) ==
    IF Len(ds) = 0 THEN 0
    ELSE (2 * Len(SelectSeq(ds, LAMBDA d : BeyondControl(d, cs))) * 100 * 100 + Len(ds))
             \div (2 * Len(ds))

\* C20: for each milestone and group, percentDelayed is the share of the
\* group's live pups' achievement days d with d > controlMean + controlSD,
\* control mean and SD over the achievement days of the live pups of groups[0],
\* SD with the n-1 denominator for two or more control observations and exactly
\* 1 for one or none; percentDelayed is 0 when no pup of the group achieved it.
C20_DelayedBeyondControlSD ==
    (aggResp # <<>> /\ aggResp[1].fn = "computePostnatalData" /\ Computed1.pups # <<>>) =>
        \A i \in 1..Len(aggResp[1].out.milestoneIncidence) :
            \A g \in 1..Len(Computed1.groups) :
                aggResp[1].out.milestoneIncidence[i].groups[g].percentDelayed
                    = PercentBeyond(DaysOf(Computed1.groups[g],
                                           aggResp[1].out.milestoneIncidence[i].milestone),
                                    DaysOf(Computed1.groups[1],
                                           aggResp[1].out.milestoneIncidence[i].milestone))

\* the control has exactly one live pup achieving, on day 14, and the treated
\* pups achieved on days 15 and 16: only day 16 is beyond 14 + 1, 50% delayed
C20_SingleControlObservation ==
    /\ aggResp # <<>>
    /\ aggResp[1].fn = "computePostnatalData"
    /\ Len(Computed1.groups) = 2
    /\ DaysOf(Computed1.groups[1], "eye opening") = <<14>>
    /\ DaysOf(Computed1.groups[2], "eye opening") = <<15, 16>>
    /\ Len(aggResp[1].out.milestoneIncidence) = 1
    /\ aggResp[1].out.milestoneIncidence[1].groups[2].percentDelayed = 50 * 100
    /\ aggResp[1].out.milestoneIncidence[1].groups[1].percentDelayed = 0

-----------------------------------------------------------------------------
(* Statistical helpers.                                                    *)

\* the last call of the statistical helper fn
StatOf(fn) == IF statResp # <<>> /\ statResp[1].fn = fn THEN statResp ELSE <<>>

\* C21: mean, median and quantile (for any q) of an empty list are 0, sem of a
\* list of length 0 or 1 is 0, and the box summary of an empty list has mean,
\* median, min, max, q1 and q3 equal to 0 and an empty values list.
C21_ZeroOnEmpty ==
    /\ \A fn \in {"mean", "median", "quantile"} :
           \A r \in {StatOf(fn)[i] : i \in DOMAIN StatOf(fn)} :
               r.values = <<>> => r.out = R(0)
    /\ \A r \in {StatOf("sem")[i] : i \in DOMAIN StatOf("sem")} :
           Len(r.values) <= 1 => r.out = [squared |-> R(0), rounded |-> 0]
    /\ \A r \in {StatOf("toBoxData")[i] : i \in DOMAIN StatOf("toBoxData")} :
           r.values = <<>> =>
               /\ r.out.values = <<>>
               /\ \A f \in {"mean", "median", "min", "max", "q1", "q3"} : r.out[f] = 0

\* the box summary of an empty list has been computed
C21_EmptyBoxSummarised ==
    /\ statResp # <<>>
    /\ statResp[1].fn = "toBoxData"
    /\ statResp[1].values = <<>>
    /\ statResp[1].out.q3 = 0

\* C22: for a non-empty list, quantile(xs, 0) is the least and quantile(xs, 1)
\* the greatest element of xs, whatever the order of xs.
C22_QuantileEnds ==
    \A r \in {StatOf("quantile")[i] : i \in DOMAIN StatOf("quantile")} :
        r.values # <<>> =>
            /\ r.q = <<R(0)>> =>
                   /\ \E i \in DOMAIN r.values : r.out = r.values[i]
                   /\ \A i \in DOMAIN r.values : ~RatGT(r.out, r.values[i])
            /\ r.q = <<R(1)>> =>
                   /\ \E i \in DOMAIN r.values : r.out = r.values[i]
                   /\ \A i \in DOMAIN r.values : ~RatLT(r.out, r.values[i])

\* the greatest element asked of a list whose greatest element comes first
C22_MaxOfDescendingList ==
    /\ statResp # <<>>
    /\ statResp[1].fn = "quantile"
    /\ statResp[1].q = <<R(1)>>
    /\ statResp[1].values = <<R(7), <<1, 2>>, R(-3)>>
    /\ statResp[1].out = R(7)

-----------------------------------------------------------------------------
(* Configuration surface.                                                  *)

\* C23: every threshold is consumed by the rule engine: on a store in which
\* every rule fires for some group, raising any one threshold,
\* variationIncidencePercent included, out of reach changes the alerts
\* evaluateAlerts returns for some study.
C23_EveryThresholdConsumed ==
    configResp # <<>> /\ configResp[1].to = R(1000) => configResp[1].changed

\* the variation-incidence threshold was raised out of reach, over a store in
\* which every litter of a treated group has a fetus with a variation, and no
\* alert changed
C23_VariationThresholdIgnored ==
    /\ configResp # <<>>
    /\ configResp[1].name = "variationIncidencePercent"
    /\ configResp[1].from = R(15)
    /\ configResp[1].to = R(1000)
    /\ ~configResp[1].changed
    /\ \E i \in DOMAIN datasets["STUDY-A"].fetuses :
           /\ datasets["STUDY-A"].fetuses[i].groupId = "G3"
           /\ SeqSome(datasets["STUDY-A"].fetuses[i].findings,
                      LAMBDA f : f.classification = "variation")

-----------------------------------------------------------------------------
(* Order of the alert list.                                                *)

\* the message templates of the rules, in the order the claim gives them;
\* a milestone-delay alert has the milestone name as template
RuleOrder ==
    << "Maternal body weight loss >%s% in ",
       "Mean maternal body weight change %s% in ",
       "Food consumption decreased %s% vs control in ",
       "%s maternal death(s) in ",
       "%s% dams with clinical signs in ",
       "Mean early resorptions %s/litter in ",
       "Mean late resorptions %s/litter in ",
       "Mean fetal weight decreased %s% vs control in ",
       "%s% litters with malformations in ",
       "Perinatal pup mortality %s% in ",
       "Pup weight gain decreased %s% vs control in " >>

RuleRank(a) ==
    IF \E k \in DOMAIN RuleOrder : RuleOrder[k] = a.message.template
    THEN CHOOSE k \in DOMAIN RuleOrder : RuleOrder[k] = a.message.template
    ELSE Len(RuleOrder) + 1

CategoryRank(a) ==
    CASE a.category = "maternal" -> 1
      [] a.category = "developmental" -> 2
      [] a.category = "postnatal" -> 3

\* the position in dataset.groups of the group an alert is about
GroupIndex(dataset, a) ==
    CHOOSE g \in DOMAIN dataset.groups : dataset.groups[g].groupId = a.groupId

\* C24: in the list evaluateAlerts returns, the alerts follow dataset.groups
\* order (those of one group are contiguous), within a group they follow the
\* fixed rule order, so maternal before developmental before postnatal, and
\* the alertId numbers increase along the list.
C24_AlertListOrder ==
    evalResp # <<>> =>
        \A i, j \in DOMAIN evalResp[1].alerts :
            i < j =>
                /\ GroupIndex(Evaluated1, evalResp[1].alerts[i])
                       <= GroupIndex(Evaluated1, evalResp[1].alerts[j])
                /\ AlertNumber(evalResp[1].alerts[i].alertId)
                       < AlertNumber(evalResp[1].alerts[j].alertId)
                /\ evalResp[1].alerts[i].groupId = evalResp[1].alerts[j].groupId =>
                       /\ CategoryRank(evalResp[1].alerts[i])
                              <= CategoryRank(evalResp[1].alerts[j])
                       /\ RuleRank(evalResp[1].alerts[i]) <= RuleRank(evalResp[1].alerts[j])
                       /\ RuleRank(evalResp[1].alerts[i]) = RuleRank(evalResp[1].alerts[j])
                              => RuleRank(evalResp[1].alerts[i]) = Len(RuleOrder) + 1
                /\ CategoryRank(evalResp[1].alerts[i])
                       = (IF RuleRank(evalResp[1].alerts[i]) <= 5 THEN 1
                          ELSE IF RuleRank(evalResp[1].alerts[i]) <= 9 THEN 2 ELSE 3)

\* a list in which the third group has an alert of every rule but the
\* group-mean body weight one, two milestone delays included, after the alerts
\* of the second group
C24_EveryRuleForOneGroup ==
    /\ evalResp # <<>>
    /\ {RuleRank(evalResp[1].alerts[i]) :
            i \in {k \in DOMAIN evalResp[1].alerts : evalResp[1].alerts[k].groupId = "G3"}}
           = 1..(Len(RuleOrder) + 1) \ {2}
    /\ Len(RuleAlerts(Groups[3], "eye opening")) = 1
    /\ Len(RuleAlerts(Groups[3], "pinna detachment")) = 1
    /\ \E i \in DOMAIN evalResp[1].alerts : evalResp[1].alerts[i].groupId = "G2"

-----------------------------------------------------------------------------
(* Milestone-delay rule.                                                   *)

\* the day pup p achieved a milestone, by its first record of that name:
\* <<d>>, or <<>> when the day is null or there is no such record
MilestoneDay(p, milestone) ==
    IF \E k \in DOMAIN p.milestones : p.milestones[k].milestone = milestone
    THEN p.milestones[CHOOSE k \in DOMAIN p.milestones :
                          /\ p.milestones[k].milestone = milestone
                          /\ \A h \in 1..(k - 1) : p.milestones[h].milestone # milestone
                     ].dayAchieved
    ELSE <<>>

\* the live pups of group g of the dataset last evaluated that achieved it
Achievers(g, milestone) ==
    SelectSeq(Evaluated1.pups,
              LAMBDA p : /\ p.groupId = g.groupId
                         /\ p.viabilityStatus = "live"
                         /\ MilestoneDay(p, milestone) # <<>>)

DaySum(g, milestone) ==
    Total(Achievers(g, milestone), LAMBDA p : MilestoneDay(p, milestone)[1])

\* (group mean day - control mean day) times both head counts
ScaledDelay(g, milestone) ==
    DaySum(g, milestone) * Len(Achievers(Control1, milestone))
        - DaySum(Control1, milestone) * Len(Achievers(g, milestone))

\* delay > k * milestoneDelayDays, for a group and a control with achievers
DelayExceeds(g, milestone, k) ==
    ScaledDelay(g, milestone) * THRESHOLDS.postnatal.milestoneDelayDays[2]
        > k * THRESHOLDS.postnatal.milestoneDelayDays[1]
            * Len(Achievers(g, milestone)) * Len(Achievers(Control1, milestone))

\* the milestone names present on any pup of the dataset last evaluated
MilestonesPresent ==
    UNION { {Evaluated1.pups[i].milestones[k].milestone :
                k \in DOMAIN Evaluated1.pups[i].milestones} : i \in DOMAIN Evaluated1.pups }

\* C25: for each non-control group and each milestone name present on any pup
\* there is at most one milestone alert; there is one iff the group and the
\* control both have a live pup with a non-null achievement day and the group
\* mean day exceeds the control mean day by more than milestoneDelayDays; it is
\* postnatal, red when the delay exceeds twice the threshold, yellow otherwise.
C25_MilestoneDelayRule ==
    evalResp # <<>> =>
        \A g \in 2..Len(Evaluated1.groups) : \A milestone \in MilestonesPresent :
            /\ Len(RuleAlerts(Evaluated1.groups[g], milestone)) <= 1
            /\ Len(RuleAlerts(Evaluated1.groups[g], milestone)) = 1
                   <=> /\ Achievers(Evaluated1.groups[g], milestone) # <<>>
                       /\ Achievers(Control1, milestone) # <<>>
                       /\ DelayExceeds(Evaluated1.groups[g], milestone, 1)
            /\ \A i \in DOMAIN RuleAlerts(Evaluated1.groups[g], milestone) :
                   /\ RuleAlerts(Evaluated1.groups[g], milestone)[i].category = "postnatal"
                   /\ RuleAlerts(Evaluated1.groups[g], milestone)[i].severity
                          = IF DelayExceeds(Evaluated1.groups[g], milestone, 2)
                            THEN "red" ELSE "yellow"

\* a delay of exactly twice the threshold (control days 10 and 20, group days
\* 14 and 22) is reported yellow
C25_TwiceTheThresholdYellow ==
    /\ evalResp # <<>>
    /\ Len(Evaluated1.groups) = 2
    /\ Len(RuleAlerts(Evaluated1.groups[2], "eye opening")) = 1
    /\ RuleAlerts(Evaluated1.groups[2], "eye opening")[1].severity = "yellow"
    /\ ScaledDelay(Evaluated1.groups[2], "eye opening") * THRESHOLDS.postnatal.milestoneDelayDays[2]
           = 2 * THRESHOLDS.postnatal.milestoneDelayDays[1]
               * Len(Achievers(Evaluated1.groups[2], "eye opening"))
               * Len(Achievers(Control1, "eye opening"))

-----------------------------------------------------------------------------
(* Resorption rule.                                                        *)

EarlyTotal(g) == Total(GroupLitters(Evaluated1, g), LAMBDA l : l.resorptionsEarly)
LateTotal(g)  == Total(GroupLitters(Evaluated1, g), LAMBDA l : l.resorptionsLate)

\* total / litters > k/2 * threshold, for a group with litters
MeanExceeds(total, g, threshold, k) ==
    2 * total * threshold[2] > k * threshold[1] * Len(GroupLitters(Evaluated1, g))

EarlyAlerts(g) == RuleAlerts(g, "Mean early resorptions %s/litter in ")
LateAlerts(g)  == RuleAlerts(g, "Mean late resorptions %s/litter in ")

\* C26: for each non-control group, an early-resorption alert is emitted iff
\* the group has litters and its mean early resorptions per litter exceeds
\* earlyResorptionThreshold, red iff it exceeds 1.5 x the threshold, else
\* yellow; a late-resorption alert is emitted iff the group has litters and its
\* mean late resorptions exceeds lateResorptionThreshold, and is always yellow;
\* the two are decided independently of each other.
C26_ResorptionRule ==
    evalResp # <<>> =>
        \A g \in 2..Len(Evaluated1.groups) :
            /\ Len(EarlyAlerts(Evaluated1.groups[g])) <= 1
            /\ Len(LateAlerts(Evaluated1.groups[g])) <= 1
            /\ Len(EarlyAlerts(Evaluated1.groups[g])) = 1
                   <=> /\ GroupLitters(Evaluated1, Evaluated1.groups[g]) # <<>>
                       /\ MeanExceeds(EarlyTotal(Evaluated1.groups[g]), Evaluated1.groups[g],
                                      THRESHOLDS.developmental.earlyResorptionThreshold, 2)
            /\ Len(LateAlerts(Evaluated1.groups[g])) = 1
                   <=> /\ GroupLitters(Evaluated1, Evaluated1.groups[g]) # <<>>
                       /\ MeanExceeds(LateTotal(Evaluated1.groups[g]), Evaluated1.groups[g],
                                      THRESHOLDS.developmental.lateResorptionThreshold, 2)
            /\ \A i \in DOMAIN EarlyAlerts(Evaluated1.groups[g]) :
                   /\ EarlyAlerts(Evaluated1.groups[g])[i].category = "developmental"
                   /\ EarlyAlerts(Evaluated1.groups[g])[i].severity
                          = IF MeanExceeds(EarlyTotal(Evaluated1.groups[g]),
                                           Evaluated1.groups[g],
                                           THRESHOLDS.developmental.earlyResorptionThreshold, 3)
                            THEN "red" ELSE "yellow"
            /\ \A i \in DOMAIN LateAlerts(Evaluated1.groups[g]) :
                   /\ LateAlerts(Evaluated1.groups[g])[i].category = "developmental"
                   /\ LateAlerts(Evaluated1.groups[g])[i].severity = "yellow"

\* a mean of 7 late resorptions per litter, far above the threshold, is
\* reported yellow, with no early alert beside it
C26_SevenLateResorptionsYellow ==
    /\ evalResp # <<>>
    /\ Len(Evaluated1.groups) = 2
    /\ Len(GroupLitters(Evaluated1, Evaluated1.groups[2])) = 2
    /\ LateTotal(Evaluated1.groups[2]) = 14
    /\ EarlyAlerts(Evaluated1.groups[2]) = <<>>
    /\ Len(LateAlerts(Evaluated1.groups[2])) = 1
    /\ LateAlerts(Evaluated1.groups[2])[1].severity = "yellow"

-----------------------------------------------------------------------------
(* The REST API.                                                           *)

\* C27: handling a GET request leaves the module-level state unchanged
\* (dataset store, refresh counter, last-refresh time, alert-id counter), and
\* the same GET request repeated with no POST /refresh in between returns the
\* same response body.
C27_GetIsReadOnly ==
    [][(httpResp' # <<>> /\ httpResp'[1].method = "GET") =>
          /\ UNCHANGED <<datasets, refreshCount, lastRefreshTime, alertCounter>>
          /\ httpResp'[1].prev # <<>> => httpResp'[1].body = httpResp'[1].prev[1]]_vars

\* GET /studies/:id/alerts was served twice in a row for the same study and
\* the two bodies differ: the second one numbers its alerts after the first
C27_RepeatedAlertsDiffer ==
    /\ httpResp # <<>>
    /\ httpResp[1].route = "/studies/:id/alerts"
    /\ httpResp[1].status = 200
    /\ httpResp[1].prev # <<>>
    /\ httpResp[1].body # httpResp[1].prev[1]
    /\ Len(httpResp[1].body) = Len(httpResp[1].prev[1])
    /\ httpResp[1].body # <<>>
    /\ AlertNumber(httpResp[1].body[1].alertId)
           = AlertNumber(httpResp[1].prev[1][Len(httpResp[1].prev[1])].alertId) + 1

\* the study list of the last response, if that was one
Summaries ==
    IF httpResp # <<>> /\ httpResp[1].route = "/studies" THEN httpResp[1].body ELSE <<>>

\* C28: every alert evaluateAlerts emits is red or yellow, never green; so the
\* badge of a list it produced is green iff the list is empty, and in the
\* study list a study's activeAlerts is 0 exactly when its riskBadge is green.
C28_GreenMeansNoAlerts ==
    /\ evalResp # <<>> =>
           /\ \A i \in DOMAIN evalResp[1].alerts :
                  evalResp[1].alerts[i].severity \in {"red", "yellow"}
           /\ deriveRiskBadge(evalResp[1].alerts) = "green" <=> evalResp[1].alerts = <<>>
    /\ \A k \in DOMAIN Summaries :
           /\ Summaries[k].activeAlerts = 0 <=> Summaries[k].riskBadge = "green"
           /\ Summaries[k].riskBadge \in {"red", "yellow", "green"}
    /\ Summaries # <<>> =>
           /\ Summaries[Len(Summaries)].activeAlerts = Len(evalResp[1].alerts)
           /\ Summaries[Len(Summaries)].riskBadge = deriveRiskBadge(evalResp[1].alerts)

\* a study list with a green study without alerts and a yellow study with some
C28_GreenAndYellowStudies ==
    /\ Len(Summaries) = 2
    /\ Summaries[1].riskBadge = "green"
    /\ Summaries[1].activeAlerts = 0
    /\ Summaries[2].riskBadge = "yellow"
    /\ Summaries[2].activeAlerts > 1

-----------------------------------------------------------------------------
(* Groups without records.                                                 *)

\* the alerts of the last evaluateAlerts call for group g in a category
CategoryAlerts(g, category) ==
    SelectSeq(evalResp[1].alerts, LAMBDA a : a.groupId = g.groupId /\ a.category = category)

\* C29: under the shipped maternal thresholds a non-control group without
\* animals gets no maternal alert (the clinical-sign percentage 0 / 0 is not
\* above the threshold), and evaluateAlerts returns.
C29_EmptyGroupNoMaternalAlert ==
    (evalResp # <<>> /\ THRESHOLDS.maternal = DefaultThresholds.maternal) =>
        \A g \in 2..Len(Evaluated1.groups) :
            GroupAnimals(Evaluated1, Evaluated1.groups[g]) = <<>> =>
                CategoryAlerts(Evaluated1.groups[g], "maternal") = <<>>

\* a study whose second group has no animals was evaluated under the shipped
\* thresholds; the call returned maternal alerts for the third group only
C29_EmptyGroupBeforeLoudGroup ==
    /\ evalResp # <<>>
    /\ THRESHOLDS = DefaultThresholds
    /\ Len(Evaluated1.groups) = 3
    /\ GroupAnimals(Evaluated1, Control1) # <<>>
    /\ GroupAnimals(Evaluated1, Evaluated1.groups[2]) = <<>>
    /\ CategoryAlerts(Evaluated1.groups[2], "maternal") = <<>>
    /\ CategoryAlerts(Evaluated1.groups[3], "maternal") # <<>>

\* exactly one alert, red, of the category given, reporting a decrease of 100%
OneRedFullDecrease(found, category) ==
    /\ Len(found) = 1
    /\ found[1].severity = "red"
    /\ found[1].category = category
    /\ found[1].message.value = ToFixed(R(100), 0)

\* C30: under the shipped thresholds, a non-control group without litters gets
\* one red developmental fetal-weight alert reporting a 100% decrease whenever
\* the control mean fetal weight is > 0, and a group without live pups, or
\* whose live pups were never weighed, gets one red postnatal pup-weight-gain
\* alert reporting 100% whenever the control mean last pup weight is > 0.
C30_MissingGroupDataIsFullDecrease ==
    (evalResp # <<>> /\ THRESHOLDS = DefaultThresholds) =>
        \A g \in 2..Len(Evaluated1.groups) :
            /\ (/\ GroupLitters(Evaluated1, Evaluated1.groups[g]) = <<>>
                /\ ControlFetalWeightTotal > 0) =>
                   OneRedFullDecrease(
                       RuleAlerts(Evaluated1.groups[g],
                                  "Mean fetal weight decreased %s% vs control in "),
                       "developmental")
            /\ (/\ \A i \in DOMAIN Evaluated1.pups :
                       (/\ Evaluated1.pups[i].groupId = Evaluated1.groups[g].groupId
                        /\ Evaluated1.pups[i].viabilityStatus = "live")
                           => Evaluated1.pups[i].bodyWeights = <<>>
                /\ ControlPupWeightTotal > 0) =>
                   OneRedFullDecrease(
                       RuleAlerts(Evaluated1.groups[g],
                                  "Pup weight gain decreased %s% vs control in "),
                       "postnatal")

\* a treated group without litters, hence without pups, got both alerts
C30_NoLittersBothAlerts ==
    /\ evalResp # <<>>
    /\ THRESHOLDS = DefaultThresholds
    /\ Len(Evaluated1.groups) = 2
    /\ GroupLitters(Evaluated1, Evaluated1.groups[2]) = <<>>
    /\ ControlFetalWeightTotal > 0
    /\ ControlPupWeightTotal > 0
    /\ SeqMap(LAMBDA a : a.message.template, evalResp[1].alerts)
           = << "Mean fetal weight decreased %s% vs control in ",
                "Pup weight gain decreased %s% vs control in " >>
    /\ \A i \in DOMAIN evalResp[1].alerts : evalResp[1].alerts[i].severity = "red"

====
